---------------------------- MODULE Spec2Model ----------------------------
(***************************************************************************)
(* Event-return and portfolio pipeline of p05_zhu_pan_2026.                *)
(*                                                                         *)
(*   clean_ravenpack_firmday.py : build_news_intraday_story                *)
(*   compute_event_returns.py   : load_crsp_prices, compute_event_returns, *)
(*                                aggregate_firm_day, build_portfolios,    *)
(*                                summarize, main                          *)
(*   pull_TAQ_intraday.py       : pull_TAQ_intraday_nbbo                   *)
(*   clean_taq_nbbo_minute.py   : clean_taq_nbbo_minute                    *)
(*                                                                         *)
(* Tables are sequences of records (one record per DataFrame row).         *)
(* A 64-bit float is modelled as an exact extended rational <<n, d>>:      *)
(* d > 0 and gcd(n, d) = 1 for a finite value, <<1,0>> and <<-1,0>> for    *)
(* +inf and -inf, <<0,0>> for not-a-number.  A polars null / Python None   *)
(* is the empty tuple.  Binary rounding of floats is not modelled.         *)
(***************************************************************************)
EXTENDS Integers, Sequences, FiniteSets, TLC

VARIABLES pc, raw, stories, labels, taq, crsp, events, firm_day, portfolio,
          prices, summary, absent, steps, written, wrds, symbols, nbbo,
          interim, df_sample, new_labels, runs, news_firmday,
          date_i, per_day_symbols

vars == <<pc, raw, stories, labels, taq, crsp, events, firm_day, portfolio,
          prices, summary, absent, steps, written, wrds, symbols, nbbo,
          interim, df_sample, new_labels, runs, news_firmday,
          date_i, per_day_symbols>>

\* the variables of the labelling runs
labelling == <<interim, df_sample, new_labels, runs>>

\* the variables of the stages added after the event-return pipeline
later == <<summary, absent, steps, written, wrds, symbols, nbbo, labelling,
          news_firmday,
                   date_i, per_day_symbols>>
LaterIdle ==
    /\ summary = <<>> /\ absent = {} /\ steps = <<>> /\ written = {}
    /\ wrds = <<>> /\ symbols = <<>> /\ nbbo = <<>>
    /\ interim = <<>> /\ df_sample = <<>> /\ new_labels = <<>> /\ runs = 0
    /\ news_firmday = <<>>
    /\ date_i = 0 /\ per_day_symbols = <<>>

(***************************************************************************)
(* Values                                                                  *)
(***************************************************************************)
Null == <<>>
NaN == <<0, 0>>
PosInf == <<1, 0>>
NegInf == <<-1, 0>>

\* a null string column value (tickers are strings)
NullStr == "<null>"

Abs(x) == IF x < 0 THEN -x ELSE x

RECURSIVE GCD(_, _)
GCD(a, b) == IF b = 0 THEN a ELSE GCD(b, a % b)

\* the finite float n/d, d > 0
Norm(n, d) == LET g == GCD(Abs(n), d) IN <<n \div g, d \div g>>

Q(n) == <<n, 1>>

IsFinite(v) == IF v = Null THEN FALSE ELSE v[2] > 0

\* float addition
FAdd(a, b) ==
    IF a = NaN \/ b = NaN THEN NaN
    ELSE IF a[2] = 0 /\ b[2] = 0 THEN (IF a = b THEN a ELSE NaN)
    ELSE IF a[2] = 0 THEN a
    ELSE IF b[2] = 0 THEN b
    ELSE Norm(a[1] * b[2] + b[1] * a[2], a[2] * b[2])

\* float negation
FNeg(a) == <<-a[1], a[2]>>

\* float subtraction
FSub(a, b) == FAdd(a, FNeg(b))

\* float division of finite operands: x/0 is +inf, -inf or not-a-number
FDiv(a, b) ==
    IF b[1] = 0
    THEN (IF a[1] > 0 THEN PosInf ELSE IF a[1] < 0 THEN NegInf ELSE NaN)
    ELSE IF b[1] > 0 THEN Norm(a[1] * b[2], a[2] * b[1])
    ELSE Norm(-(a[1] * b[2]), a[2] * (-b[1]))

\* float division by a positive integer count (finite or not)
FDivCount(a, k) == IF a[2] = 0 THEN a ELSE Norm(a[1], a[2] * k)

\* a > b and a < b on finite floats
FGt(a, b) == a[1] * b[2] > b[1] * a[2]
FLt(a, b) == a[1] * b[2] < b[1] * a[2]

\* polars expression arithmetic: null if an operand is null
PSub(a, b) == IF a = Null \/ b = Null THEN Null ELSE FSub(a, b)
PDiv(a, b) == IF a = Null \/ b = Null THEN Null ELSE FDiv(a, b)
PAbs(a) == IF a = Null THEN Null ELSE <<Abs(a[1]), a[2]>>

RECURSIVE SumSeq(_)
SumSeq(s) == IF s = <<>> THEN Q(0) ELSE FAdd(Head(s), SumSeq(Tail(s)))

\* Series.drop_nulls()
DropNulls(s) == SelectSeq(s, LAMBDA v : v # Null)

\* Mean with the nulls counted as zero
Mean_nulls_as_zero(s) ==
    IF s = <<>> THEN Null
    ELSE FDivCount(SumSeq([i \in 1..Len(s) |-> IF s[i] = Null THEN Q(0) ELSE s[i]]),
                   Len(s))

\* Series.mean(): nulls are skipped, None when no value is left
Mean(s) ==
    LET v == DropNulls(s)
    IN IF v = <<>> THEN Null ELSE FDivCount(SumSeq(v), Len(v))

\* the columns score, initial_reaction and drift of a table
ColScore(t) == [i \in 1..Len(t) |-> t[i].score]
ColInitialReaction(t) == [i \in 1..Len(t) |-> t[i].initial_reaction]
ColDrift(t) == [i \in 1..Len(t) |-> t[i].drift]

\* an enumeration of a finite set
RECURSIVE SetToSeq(_)
SetToSeq(S) ==
    IF S = {} THEN <<>>
    ELSE LET x == CHOOSE y \in S : TRUE IN <<x>> \o SetToSeq(S \ {x})

\* Row order does not matter to the operations that read a table, so a table
\* is supplied with its rows in the order of a fixed enumeration: the rows
\* that may follow the rows t already supplied
RankIn(types, row) == CHOOSE k \in 1..Len(types) : types[k] = row
NextRows(types, t) ==
    {types[k] : k \in (IF t = <<>> THEN 1 ELSE RankIn(types, t[Len(t)]))..Len(types)}

(***************************************************************************)
(* clean_ravenpack_firmday.py: build_news_intraday_story                   *)
(*                                                                         *)
(* A UTC timestamp is a record [day, hour, minute, second, micro].  Local  *)
(* wall-clock time is counted in seconds since 00:00 of day 0.             *)
(***************************************************************************)
MaxDay == 2

UtcSeconds(ts) == ((ts.day * 24 + ts.hour) * 60 + ts.minute) * 60 + ts.second

\* America/New_York: UTC-5, and UTC-4 from the start of daylight saving
\* time, which in the modelled window is 07:00 UTC of day 2
DstStart == (2 * 24 + 7) * 3600
NewYorkOffset(utc) == IF utc < DstStart THEN -5 * 3600 ELSE -4 * 3600

\* dt.replace_time_zone("UTC").dt.convert_time_zone("America/New_York"):
\* the local wall-clock second of a UTC second
ConvertTimeZone(utc) == utc + NewYorkOffset(utc)

\* dt.date(), dt.hour() / strftime("%H"), dt.minute() / strftime("%M"),
\* dt.second() of a local wall-clock second
DtDate(loc) == loc \div 86400
DtHour(loc) == (loc % 86400) \div 3600
DtMinute(loc) == (loc % 3600) \div 60
DtSecond(loc) == loc % 60

\* RollsOver with the cutoff comparison made strict
RollsOver_strict(loc) ==
    3600 * DtHour(loc) + 60 * DtMinute(loc) + DtSecond(loc) > 16 * 3600

\* hour >= 16.0 with hour = h + m/60.0 + s/3600.0, scaled by 3600
RollsOver(loc) == 3600 * DtHour(loc) + 60 * DtMinute(loc) + DtSecond(loc) >= 16 * 3600

\* pl.when(hour >= 16.0).then(base_date + 1 day).otherwise(base_date)
date_expr(loc) == IF RollsOver(loc) THEN DtDate(loc) + 1 ELSE DtDate(loc)

\* (minute_of_day >= 9 * 60 + 30) & (minute_of_day < 16 * 60)
minute_of_day(loc) == DtHour(loc) * 60 + DtMinute(loc)
\* is_intraday with the close included in the session
is_intraday_closed(loc) ==
    minute_of_day(loc) >= 9 * 60 + 30 /\ minute_of_day(loc) <= 16 * 60

is_intraday(loc) == minute_of_day(loc) >= 9 * 60 + 30 /\ minute_of_day(loc) < 16 * 60

\* t15 rounded to the nearest minute instead of floored
t15_rounded(utc) ==
    LET loc == ConvertTimeZone(utc + 15 * 60) IN (loc + 30) - ((loc + 30) % 60)

\* (timestamp_et + 15 minutes).dt.truncate("1m"), as a local wall-clock second
t15(utc) == LET loc == ConvertTimeZone(utc + 15 * 60) IN loc - (loc % 60)

\* the story-index row of one raw row
StoryRow(r) ==
    LET loc == ConvertTimeZone(UtcSeconds(r.timestamp_utc))
    IN [rp_story_id |-> r.rp_story_id,
        timestamp_utc |-> r.timestamp_utc,
        ticker |-> r.ticker,
        timestamp_et |-> [second |-> loc, micro |-> r.timestamp_utc.micro],
        date |-> date_expr(loc),
        is_intraday |-> is_intraday(loc),
        t15 |-> t15(UtcSeconds(r.timestamp_utc))]

\* the raw news rows the story index is built from
Seconds == {0, 1, 30, 59}
Micros == {0, 999999}
Timestamps ==
    [day : 1..MaxDay, hour : 0..23, minute : 0..59, second : Seconds, micro : Micros]
RawRows == [rp_story_id : {1}, timestamp_utc : Timestamps, ticker : {"A", NullStr}]

build_news_intraday_story ==
    /\ pc = "story"
    /\ stories' = [i \in 1..Len(SelectSeq(raw, LAMBDA r : r.ticker # NullStr)) |->
                      StoryRow(SelectSeq(raw, LAMBDA r : r.ticker # NullStr)[i])]
    /\ pc' = "done"
    /\ UNCHANGED <<raw, labels, taq, crsp, events, firm_day, portfolio, prices, later>>

InitStory ==
    /\ pc = "story"
    /\ raw \in {<<r>> : r \in RawRows}
    /\ stories = <<>>
    /\ labels = <<>> /\ taq = <<>> /\ crsp = <<>>
    /\ events = <<>> /\ firm_day = <<>> /\ portfolio = <<>>
    /\ prices = <<>> /\ LaterIdle

NextStory == build_news_intraday_story

SpecStory == InitStory /\ [][NextStory]_vars

(***************************************************************************)
(* compute_event_returns.py: load_crsp_prices, compute_event_returns       *)
(*                                                                         *)
(* labels  : rp_story_id, ticker, label, score    (gpt_labels.parquet)     *)
(* stories : rp_story_id, ticker, date, is_intraday, t15                   *)
(* taq     : date, ticker, minute_ts, mid                                  *)
(* crsp    : date, ticker, openprc, closeprc                               *)
(* The headline column is carried through unchanged and is left out.       *)
(***************************************************************************)
\* the order of ticker strings
TickerOrder == <<"A", "B">>
TickerRank(t) == CHOOSE k \in 1..Len(TickerOrder) : TickerOrder[k] = t

\* the orders of n rows
Perms(n) == Permutations(1..n)

\* closeprc.abs(), openprc.abs()
AbsPrices(t) ==
    [i \in 1..Len(t) |->
        [t[i] EXCEPT !.closeprc = PAbs(@), !.openprc = PAbs(@)]]

\* df.sort(["ticker", "date"]): the row orders the sort may return; rows with
\* equal keys come in any order (the sort is not asked to keep their order)
SortKeyLeq(a, b) ==
    \/ TickerRank(a.ticker) < TickerRank(b.ticker)
    \/ a.ticker = b.ticker /\ a.date <= b.date
SortOrders(t) ==
    {p \in Perms(Len(t)) : \A i \in 1..(Len(t) - 1) : SortKeyLeq(t[p[i]], t[p[i + 1]])}

\* ShiftOverTicker without the over("ticker") window
ShiftOverTicker_global(srt) ==
    [i \in 1..Len(srt) |->
        [date |-> srt[i].date,
         ticker |-> srt[i].ticker,
         openprc |-> srt[i].openprc,
         closeprc |-> srt[i].closeprc,
         prev_close |-> IF i > 1 THEN srt[i - 1].closeprc ELSE Null,
         close_next |-> IF i < Len(srt) THEN srt[i + 1].closeprc ELSE Null]]

\* closeprc.shift(1).over("ticker") and closeprc.shift(-1).over("ticker") on
\* a table sorted by ticker
ShiftOverTicker(srt) ==
    [i \in 1..Len(srt) |->
        [date |-> srt[i].date,
         ticker |-> srt[i].ticker,
         openprc |-> srt[i].openprc,
         closeprc |-> srt[i].closeprc,
         prev_close |-> IF i > 1 /\ srt[i - 1].ticker = srt[i].ticker
                        THEN srt[i - 1].closeprc ELSE Null,
         close_next |-> IF i < Len(srt) /\ srt[i + 1].ticker = srt[i].ticker
                        THEN srt[i + 1].closeprc ELSE Null]]

\* load_crsp_prices with the shift taken before the sign normalization
load_crsp_prices_shift_first(t, p) ==
    AbsPrices(ShiftOverTicker([i \in 1..Len(t) |-> t[p[i]]]))

\* load_crsp_prices, with p the row order the sort returned
load_crsp_prices(t, p) ==
    ShiftOverTicker([i \in 1..Len(t) |-> AbsPrices(t)[p[i]]])

RECURSIVE Flatten(_)
Flatten(ss) == IF ss = <<>> THEN <<>> ELSE Head(ss) \o Flatten(Tail(ss))

\* JoinRows for how="inner": a left row without a match is dropped
JoinRows_inner(matched, unmatched) == matched

\* the rows a how="left" join gives one left row: one per matching right row,
\* or one row with nulls when nothing matches
JoinRows(matched, unmatched) == IF matched = <<>> THEN <<unmatched>> ELSE matched

\* labels.filter(ticker not null and ticker != "")
FilterLabels(lb) == SelectSeq(lb, LAMBDA l : l.ticker # NullStr /\ l.ticker # "")

\* labels.join(stories, on=["rp_story_id", "ticker"], how="inner"), then
\* t15_naive = t15 without its time zone
JoinStories(lb, st) ==
    Flatten([i \in 1..Len(lb) |->
        LET m == SelectSeq(st, LAMBDA x : x.rp_story_id = lb[i].rp_story_id
                                          /\ x.ticker = lb[i].ticker)
        IN [j \in 1..Len(m) |->
               [rp_story_id |-> lb[i].rp_story_id, ticker |-> lb[i].ticker,
                label |-> lb[i].label, score |-> lb[i].score,
                date |-> m[j].date, is_intraday |-> m[j].is_intraday,
                t15 |-> m[j].t15, t15_naive |-> m[j].t15]]])

\* JoinTaq matching the quote of the story's minute or of the minute after it
JoinTaq_nearest(ev, tq) ==
    Flatten([i \in 1..Len(ev) |->
        LET m == SelectSeq(tq, LAMBDA x : x.date = ev[i].date
                                          /\ x.ticker = ev[i].ticker
                                          /\ x.minute_ts - ev[i].t15_naive \in {0, 60})
        IN JoinRows([j \in 1..Len(m) |-> [e |-> ev[i], mid_t15 |-> m[j].mid]],
                    [e |-> ev[i], mid_t15 |-> Null])])

\* events.join(taq, left_on=[date, ticker, t15_naive],
\*             right_on=[taq_date, ticker, minute_ts], how="left")
JoinTaq(ev, tq) ==
    Flatten([i \in 1..Len(ev) |->
        LET m == SelectSeq(tq, LAMBDA x : x.date = ev[i].date
                                          /\ x.ticker = ev[i].ticker
                                          /\ x.minute_ts = ev[i].t15_naive)
        IN JoinRows([j \in 1..Len(m) |-> [e |-> ev[i], mid_t15 |-> m[j].mid]],
                    [e |-> ev[i], mid_t15 |-> Null])])

\* events.join(crsp, on=["date", "ticker"], how="left")
JoinCrsp(ev, cr) ==
    Flatten([i \in 1..Len(ev) |->
        LET m == SelectSeq(cr, LAMBDA x : x.date = ev[i].e.date
                                          /\ x.ticker = ev[i].e.ticker)
            none == [openprc |-> Null, closeprc |-> Null,
                     prev_close |-> Null, close_next |-> Null]
        IN JoinRows([j \in 1..Len(m) |-> [e |-> ev[i].e, mid_t15 |-> ev[i].mid_t15,
                                          p |-> m[j]]],
                    [e |-> ev[i].e, mid_t15 |-> ev[i].mid_t15, p |-> none])])

\* InitialReaction with the intraday formula on every row
InitialReaction_noswitch(intraday, mid_t15, openprc, prev_close) ==
    PDiv(PSub(mid_t15, prev_close), prev_close)

\* when(is_intraday).then((mid_t15 - prev_close) / prev_close)
\*                  .otherwise((openprc - prev_close) / prev_close)
InitialReaction(intraday, mid_t15, openprc, prev_close) ==
    IF intraday
    THEN PDiv(PSub(mid_t15, prev_close), prev_close)
    ELSE PDiv(PSub(openprc, prev_close), prev_close)

\* when(is_intraday).then((close_next - closeprc) / closeprc)
\*                  .otherwise((closeprc - openprc) / openprc)
Drift(intraday, openprc, closeprc, close_next) ==
    IF intraday
    THEN PDiv(PSub(close_next, closeprc), closeprc)
    ELSE PDiv(PSub(closeprc, openprc), openprc)

\* the event-return table
EventReturns(lb, st, tq, cr) ==
    LET j == JoinCrsp(JoinTaq(JoinStories(FilterLabels(lb), st), tq), cr)
    IN [i \in 1..Len(j) |->
           [rp_story_id |-> j[i].e.rp_story_id,
            ticker |-> j[i].e.ticker,
            label |-> j[i].e.label,
            score |-> j[i].e.score,
            date |-> j[i].e.date,
            is_intraday |-> j[i].e.is_intraday,
            t15 |-> j[i].e.t15,
            t15_naive |-> j[i].e.t15_naive,
            mid_t15 |-> j[i].mid_t15,
            openprc |-> j[i].p.openprc,
            closeprc |-> j[i].p.closeprc,
            prev_close |-> j[i].p.prev_close,
            close_next |-> j[i].p.close_next,
            initial_reaction |-> InitialReaction(j[i].e.is_intraday, j[i].mid_t15,
                                                 j[i].p.openprc, j[i].p.prev_close),
            drift |-> Drift(j[i].e.is_intraday, j[i].p.openprc,
                            j[i].p.closeprc, j[i].p.close_next)]]

compute_event_returns ==
    /\ pc = "inputs"
    /\ \E p \in SortOrders(crsp) :
          /\ prices' = load_crsp_prices(crsp, p)
          /\ events' = EventReturns(labels, stories, taq, load_crsp_prices(crsp, p))
    /\ pc' = "done"
    /\ UNCHANGED <<raw, stories, labels, taq, crsp, firm_day, portfolio, later>>

\* the input files compute_event_returns is run on: one labeled story, one
\* story-index row for ticker A on date 2 whose t15 is 10:15 of that date,
\* minute quotes and daily prices around it
MaxTaq == 2
MaxCrsp == 3
StoryMinute == (2 * 24 + 10) * 3600 + 15 * 60
LabelTables ==
    {<<[rp_story_id |-> 1, ticker |-> t, label |-> "YES", score |-> Q(1)]>> :
        t \in {"A", ""}}
StoryTables ==
    {<<[rp_story_id |-> x[1], ticker |-> "A", date |-> 2, is_intraday |-> x[2],
        t15 |-> StoryMinute]>> : x \in {<<1, TRUE>>, <<1, FALSE>>, <<2, TRUE>>}}
TaqRows ==
    {[date |-> 2, ticker |-> "A", minute_ts |-> StoryMinute, mid |-> Q(3)],
     [date |-> 2, ticker |-> "A", minute_ts |-> StoryMinute, mid |-> Q(5)],
     [date |-> 2, ticker |-> "A", minute_ts |-> StoryMinute + 60, mid |-> Q(3)],
     [date |-> 1, ticker |-> "A", minute_ts |-> StoryMinute, mid |-> Q(3)]}
TaqRowSeq == SetToSeq(TaqRows)
CrspRows ==
    {[date |-> d, ticker |-> "A", openprc |-> oc[1], closeprc |-> oc[2]] :
        d \in {1, 3},
        oc \in {<<Q(-3), Q(4)>>, <<Q(3), Q(0)>>, <<Q(3), Q(-2)>>}}
    \cup {[date |-> 2, ticker |-> "A", openprc |-> oc[1], closeprc |-> oc[2]] :
        oc \in {<<Q(0), Q(4)>>, <<Q(-3), Q(0)>>, <<Q(3), Q(-2)>>, <<Null, Q(4)>>}}
    \cup {[date |-> 2, ticker |-> "B", openprc |-> Q(7), closeprc |-> Q(7)]}
CrspRowSeq == SetToSeq(CrspRows)

\* one more row is found in taq_nbbo_minute.parquet (read before the prices)
ReadTaq ==
    /\ pc = "inputs"
    /\ crsp = <<>>
    /\ Len(taq) < MaxTaq
    /\ \E r \in NextRows(TaqRowSeq, taq) : taq' = Append(taq, r)
    /\ UNCHANGED <<pc, raw, stories, labels, crsp, events, firm_day, portfolio, prices, later>>

\* one more row is found in CRSP_daily_stock.parquet
ReadCrsp ==
    /\ pc = "inputs"
    /\ Len(crsp) < MaxCrsp
    /\ \E r \in NextRows(CrspRowSeq, crsp) : crsp' = Append(crsp, r)
    /\ UNCHANGED <<pc, raw, stories, labels, taq, events, firm_day, portfolio, prices, later>>

InitEvents ==
    /\ pc = "inputs"
    /\ labels \in LabelTables
    /\ stories \in StoryTables
    /\ taq = <<>> /\ crsp = <<>>
    /\ events = <<>>
    /\ raw = <<>> /\ firm_day = <<>> /\ portfolio = <<>>
    /\ prices = <<>> /\ LaterIdle

NextEvents == ReadTaq \/ ReadCrsp \/ compute_event_returns

SpecEvents == InitEvents /\ [][NextEvents]_vars

(***************************************************************************)
(* compute_event_returns.py: aggregate_firm_day                            *)
(*                                                                         *)
(* An event row carries the columns aggregate_firm_day reads: ticker,      *)
(* date, label, score, initial_reaction, drift.                            *)
(***************************************************************************)
Half == <<1, 2>>

\* Sentiment with the upper threshold made inclusive
Sentiment_inclusive(avg_score) ==
    IF avg_score # Null /\ ~FLt(avg_score, Half) THEN "positive"
    ELSE IF avg_score # Null /\ FLt(avg_score, Half) THEN "negative"
    ELSE "neutral"

\* when(avg_score > 0.5) positive, when(avg_score < 0.5) negative, otherwise
\* neutral; a comparison with null is null and selects no branch
Sentiment(avg_score) ==
    IF avg_score # Null /\ FGt(avg_score, Half) THEN "positive"
    ELSE IF avg_score # Null /\ FLt(avg_score, Half) THEN "negative"
    ELSE "neutral"

\* the aggregated row of one (ticker, date) group
FirmDayRow(ev, key) ==
    LET grp == SelectSeq(ev, LAMBDA r : <<r.ticker, r.date>> = key)
        avg == Mean(ColScore(grp))
    IN [ticker |-> key[1],
        date |-> key[2],
        avg_score |-> avg,
        n_headlines |-> Len(SelectSeq(grp, LAMBDA r : r.label # NullStr)),
        initial_reaction |-> Mean(ColInitialReaction(grp)),
        drift |-> Mean(ColDrift(grp)),
        sentiment |-> Sentiment(avg)]

\* the orders in which group_by may return the groups (it keeps no order)
GroupOrders(keys) ==
    {o \in [1..Cardinality(keys) -> keys] :
        \A i, j \in 1..Cardinality(keys) : i # j => o[i] # o[j]}

aggregate_firm_day ==
    /\ pc = "events"
    /\ \E o \in GroupOrders({<<events[i].ticker, events[i].date>> : i \in 1..Len(events)}) :
          firm_day' = [k \in 1..Len(o) |-> FirmDayRow(events, o[k])]
    /\ pc' = "done"
    /\ UNCHANGED <<raw, stories, labels, taq, crsp, events, portfolio, prices, later>>

\* the event tables aggregate_firm_day is run on; a label and its score come
\* from label_headlines_gpt.label_to_score
MaxEvents == 3
LabelScores == {<<"YES", Q(1)>>, <<"NO", Q(0)>>, <<"UNKNOWN", Half>>}
EventRows ==
    {[ticker |-> k[1], date |-> k[2], label |-> ls[1], score |-> ls[2],
      initial_reaction |-> ir, drift |-> dr] :
        k \in {<<"A", 1>>, <<"A", 2>>, <<"B", 1>>},
        ls \in LabelScores,
        ir \in {Null, Q(2)},
        dr \in {Null, Q(-3)}}
EventRowSeq == SetToSeq(EventRows)

\* the caller hands over one more row of the events argument
ReceiveEvent ==
    /\ pc = "events"
    /\ Len(events) < MaxEvents
    /\ \E r \in NextRows(EventRowSeq, events) : events' = Append(events, r)
    /\ UNCHANGED <<pc, raw, stories, labels, taq, crsp, firm_day, portfolio, prices, later>>

InitAggregate ==
    /\ pc = "events"
    /\ events = <<>>
    /\ firm_day = <<>>
    /\ raw = <<>> /\ stories = <<>> /\ labels = <<>> /\ taq = <<>>
    /\ crsp = <<>> /\ portfolio = <<>>
    /\ prices = <<>> /\ LaterIdle

NextAggregate == ReceiveEvent \/ aggregate_firm_day

SpecAggregate == InitAggregate /\ [][NextAggregate]_vars

(***************************************************************************)
(* compute_event_returns.py: build_portfolios                              *)
(*                                                                         *)
(* A firm-day row carries the columns build_portfolios reads: date,        *)
(* sentiment, initial_reaction, drift (one row per ticker and date).       *)
(***************************************************************************)
RECURSIVE SortedSeqOf(_)
\* Series.unique().sort(): the elements of a set of integers, ascending
SortedSeqOf(S) ==
    IF S = {} THEN <<>>
    ELSE LET lo == CHOOSE x \in S : \A y \in S : x <= y
         IN <<lo>> \o SortedSeqOf(S \ {lo})

\* Python's (x or 0): None and 0.0 give 0, any other float gives itself
OrZero(x) == IF x = Null \/ x = Q(0) THEN Q(0) ELSE x

\* the leg mean: col.drop_nulls().mean() if the leg has a member, else None
LegMean(n, col) == IF n > 0 THEN Mean(col) ELSE Null

\* ShortOnly without the sign flip
ShortOnly_unnegated(short) == short

\* -short if short is not None else None
ShortOnly(short) == IF short # Null THEN FNeg(short) ELSE Null

\* the long-short value: computed when both legs have at least 2 firm-days
LongShort(n_pos, n_neg, long, short) ==
    IF n_pos >= 2 /\ n_neg >= 2
    THEN FSub(OrZero(long), OrZero(short))
    ELSE Null

\* PortfolioRow with the long leg taken over the firm-days up to date_val,
\* as if the positive rows were accumulated across the passes of the loop
PortfolioRow_carried(fd, date_val) ==
    LET day == SelectSeq(fd, LAMBDA r : r.date = date_val)
        pos == SelectSeq(fd, LAMBDA r : r.date <= date_val /\ r.sentiment = "positive")
        neg == SelectSeq(day, LAMBDA r : r.sentiment = "negative")
        n_pos == Len(pos)
        n_neg == Len(neg)
        n_neutral == Len(SelectSeq(day, LAMBDA r : r.sentiment = "neutral"))
        ir_long == LegMean(n_pos, ColInitialReaction(pos))
        ir_short == LegMean(n_neg, ColInitialReaction(neg))
        dr_long == LegMean(n_pos, ColDrift(pos))
        dr_short == LegMean(n_neg, ColDrift(neg))
    IN [date |-> date_val,
        n_positive |-> n_pos,
        n_negative |-> n_neg,
        n_neutral |-> n_neutral,
        ir_long_only |-> ir_long,
        ir_short_only |-> ShortOnly(ir_short),
        ir_long_short |-> LongShort(n_pos, n_neg, ir_long, ir_short),
        drift_long_only |-> dr_long,
        drift_short_only |-> ShortOnly(dr_short),
        drift_long_short |-> LongShort(n_pos, n_neg, dr_long, dr_short)]

\* one pass of the loop over dates: the row appended for date_val
PortfolioRow(fd, date_val) ==
    LET day == SelectSeq(fd, LAMBDA r : r.date = date_val)
        pos == SelectSeq(day, LAMBDA r : r.sentiment = "positive")
        neg == SelectSeq(day, LAMBDA r : r.sentiment = "negative")
        n_pos == Len(pos)
        n_neg == Len(neg)
        n_neutral == Len(SelectSeq(day, LAMBDA r : r.sentiment = "neutral"))
        ir_long == LegMean(n_pos, ColInitialReaction(pos))
        ir_short == LegMean(n_neg, ColInitialReaction(neg))
        dr_long == LegMean(n_pos, ColDrift(pos))
        dr_short == LegMean(n_neg, ColDrift(neg))
    IN [date |-> date_val,
        n_positive |-> n_pos,
        n_negative |-> n_neg,
        n_neutral |-> n_neutral,
        ir_long_only |-> ir_long,
        ir_short_only |-> ShortOnly(ir_short),
        ir_long_short |-> LongShort(n_pos, n_neg, ir_long, ir_short),
        drift_long_only |-> dr_long,
        drift_short_only |-> ShortOnly(dr_short),
        drift_long_short |-> LongShort(n_pos, n_neg, dr_long, dr_short)]

\* PortfolioTable looping over the date column without unique()
PortfolioTable_perRow(fd) ==
    [k \in 1..Len(fd) |-> PortfolioRow(fd, fd[k].date)]

\* the portfolio table: one row per date of firm_day, dates ascending
PortfolioTable(fd) ==
    LET dates == SortedSeqOf({fd[i].date : i \in 1..Len(fd)})
    IN [k \in 1..Len(dates) |-> PortfolioRow(fd, dates[k])]

build_portfolios ==
    /\ pc = "firm_day"
    /\ portfolio' = PortfolioTable(firm_day)
    /\ pc' = "done"
    /\ UNCHANGED <<raw, stories, labels, taq, crsp, events, firm_day, prices, later>>

\* the firm-day tables build_portfolios is run on
MaxFirmDays == 4
FirmDayRows ==
    [date : {1, 2},
     sentiment : {"positive", "negative", "neutral"},
     initial_reaction : {Null, Q(-1), Q(2)},
     drift : {Null, Q(-3)}]
FirmDayRowSeq == SetToSeq(FirmDayRows)

\* the caller hands over one more row of the firm_day argument
ReceiveFirmDay ==
    /\ pc = "firm_day"
    /\ Len(firm_day) < MaxFirmDays
    /\ \E r \in NextRows(FirmDayRowSeq, firm_day) : firm_day' = Append(firm_day, r)
    /\ UNCHANGED <<pc, raw, stories, labels, taq, crsp, events, portfolio, prices, later>>

InitPortfolio ==
    /\ pc = "firm_day"
    /\ firm_day = <<>>
    /\ portfolio = <<>>
    /\ raw = <<>> /\ stories = <<>> /\ labels = <<>> /\ taq = <<>>
    /\ crsp = <<>> /\ events = <<>>
    /\ prices = <<>> /\ LaterIdle

NextPortfolio == ReceiveFirmDay \/ build_portfolios

SpecPortfolio == InitPortfolio /\ [][NextPortfolio]_vars

(***************************************************************************)
(* compute_event_returns.py: summarize                                     *)
(*                                                                         *)
(* summarize prints one block per series of the portfolio table.  summary  *)
(* holds, per series, either "no data" or the numbers the block is         *)
(* formatted from.  A standard deviation is kept as its square and a       *)
(* Sharpe ratio as its sign and its square, which are rational.  A         *)
(* DataFrame built from an empty list of rows has no columns, so the       *)
(* empty sequence is a portfolio table without any column.                 *)
(***************************************************************************)
\* float multiplication: not-a-number if an operand is, or for infinity
\* times 0; infinity with the sign of the product otherwise
FMul(a, b) ==
    IF a = NaN \/ b = NaN THEN NaN
    ELSE IF a[2] = 0 \/ b[2] = 0
         THEN (IF a[1] * b[1] > 0 THEN PosInf
               ELSE IF a[1] * b[1] < 0 THEN NegInf
               ELSE NaN)
    ELSE Norm(a[1] * b[1], a[2] * b[2])

Sign(a) == IF a[1] > 0 THEN 1 ELSE IF a[1] < 0 THEN -1 ELSE 0

\* the list metrics: column, category, portfolio name
metrics ==
    <<<<"ir_long_short", "Initial Reaction", "Long-Short">>,
      <<"ir_long_only", "Initial Reaction", "Long-Only">>,
      <<"ir_short_only", "Initial Reaction", "Short-Only">>,
      <<"drift_long_short", "Drift", "Long-Short">>,
      <<"drift_long_only", "Drift", "Long-Only">>,
      <<"drift_short_only", "Drift", "Short-Only">>>>

\* portfolio[col]
PortfolioColumn(pf, col) ==
    [i \in 1..Len(pf) |->
        CASE col = "ir_long_short" -> pf[i].ir_long_short
          [] col = "ir_long_only" -> pf[i].ir_long_only
          [] col = "ir_short_only" -> pf[i].ir_short_only
          [] col = "drift_long_short" -> pf[i].drift_long_short
          [] col = "drift_long_only" -> pf[i].drift_long_only
          [] col = "drift_short_only" -> pf[i].drift_short_only]

\* HitRate counting a day with value 0 as a hit
HitRate_nonstrict(vals) ==
    Norm(100 * Len(SelectSeq(vals, LAMBDA v : ~FLt(v, Q(0)))), Len(vals))

\* np.mean(vals > 0) * 100
HitRate(vals) ==
    Norm(100 * Len(SelectSeq(vals, LAMBDA v : FGt(v, Q(0)))), Len(vals))

\* np.mean(vals) * 100
MeanRet(vals) == FMul(Mean(vals), Q(100))

\* 0.1, the value of the model that is no binary fraction
Tenth == <<1, 10>>

\* np.mean of n copies of one value is that value unless the sum or the
\* quotient is rounded.  Of the values of the model only 0.1 and -0.1 are
\* rounded, and in series of up to 7 days their sum is rounded for 3, 6 and 7
\* copies: 0.1 + 0.1 + 0.1 = 0.30000000000000004, a third of which is
\* 0.10000000000000002
MeanIsRounded(vals) ==
    /\ Len(vals) \in {3, 6, 7}
    /\ \A i \in 1..Len(vals) : vals[i] = vals[1]
    /\ vals[1] \in {Tenth, FNeg(Tenth)}

\* what binary rounding leaves where the exact value is 0: a positive number
\* below every positive rational of the model
Residue == <<1, -1>>

\* the sum of squared deviations from np.mean(vals)
SquaredDeviations(vals) ==
    IF MeanIsRounded(vals) THEN Residue
    ELSE LET mean == Mean(vals)
         IN SumSeq([i \in 1..Len(vals) |->
                       FMul(FSub(vals[i], mean), FSub(vals[i], mean))])

\* the square of std_ret: np.std(vals, ddof=1) if len(vals) > 1 else 0.0
StdRetSquared(vals) ==
    IF Len(vals) > 1
    THEN LET dev == SquaredDeviations(vals)
         IN IF dev = Residue THEN Residue ELSE FDivCount(dev, Len(vals) - 1)
    ELSE Q(0)

\* (np.mean(vals) / std_ret * sqrt(252)) if std_ret > 0 else nan; a ratio is
\* kept as <<sign, n, d>> with n/d its square, and the ratio of a mean to a
\* rounding residue as <<sign, 1, 0>>: finite, beyond the rationals of the
\* model.  A not-a-number std_ret is not above 0.
Sharpe(vals) ==
    LET std == StdRetSquared(vals)
        mean == Mean(vals)
        square == FMul(Q(252), FDiv(FMul(mean, mean), std))
    IN IF std = Residue
       THEN <<Sign(mean), 1, 0>>
       ELSE IF std # NaN /\ FGt(std, Q(0))
       THEN <<Sign(mean), square[1], square[2]>>
       ELSE NaN

\* one pass of the loop over metrics: the block printed for a series
SummaryBlock(pf, m) ==
    LET vals == DropNulls(PortfolioColumn(pf, m[1]))
    IN IF Len(vals) = 0
       THEN [col |-> m[1], data |-> FALSE]
       ELSE [col |-> m[1], data |-> TRUE,
             hit_rate |-> HitRate(vals),
             mean_ret |-> MeanRet(vals),
             std_ret_squared |-> StdRetSquared(vals),
             sharpe |-> Sharpe(vals),
             sharpe_printed |-> (m[2] = "Drift"),
             trading_days |-> Len(vals)]

\* portfolio[col] of a table without columns raises ColumnNotFoundError in
\* the first pass of the loop
summarize ==
    /\ pc = "portfolio"
    /\ IF portfolio = <<>>
       THEN /\ pc' = "ColumnNotFoundError"
            /\ summary' = <<>>
       ELSE /\ pc' = "done"
            /\ summary' = [k \in 1..Len(metrics) |-> SummaryBlock(portfolio, metrics[k])]
    /\ UNCHANGED <<raw, stories, labels, taq, crsp, events, firm_day, portfolio,
                   prices, absent, steps, written, wrds, symbols, nbbo, labelling,
                   news_firmday,
                   date_i, per_day_symbols>>

\* the portfolio tables summarize is run on: rows as build_portfolios makes
\* them for a date with n firm-days in each leg and leg means a, b
MaxPortfolio == 3
LegValues == {Null, Q(0), Q(1)}
\* the pairs of leg means of a date: the values above, and a date with 0.1,
\* with not-a-number and with infinity (returns over a price of 0)
LegPairs ==
    (LegValues \X LegValues) \cup {<<Tenth, Null>>, <<NaN, Q(1)>>, <<PosInf, Q(0)>>}
PortfolioRows ==
    {[date |-> 0,
      n_positive |-> n, n_negative |-> n, n_neutral |-> 0,
      ir_long_only |-> ab[1],
      ir_short_only |-> ShortOnly(ab[2]),
      ir_long_short |-> LongShort(n, n, ab[1], ab[2]),
      drift_long_only |-> ab[2],
      drift_short_only |-> ShortOnly(ab[1]),
      drift_long_short |-> LongShort(n, n, ab[2], ab[1])] :
        n \in {1, 2}, ab \in LegPairs}
PortfolioRowSeq == SetToSeq(PortfolioRows)

\* build_portfolios appended the row of one more date
ReceivePortfolioRow ==
    /\ pc = "portfolio"
    /\ Len(portfolio) < MaxPortfolio
    /\ \E r \in NextRows(PortfolioRowSeq,
                         [i \in 1..Len(portfolio) |-> [portfolio[i] EXCEPT !.date = 0]]) :
          portfolio' = Append(portfolio, [r EXCEPT !.date = Len(portfolio) + 1])
    /\ UNCHANGED <<pc, raw, stories, labels, taq, crsp, events, firm_day,
                   prices, later>>

InitSummary ==
    /\ pc = "portfolio"
    /\ portfolio = <<>>
    /\ raw = <<>> /\ stories = <<>> /\ labels = <<>> /\ taq = <<>>
    /\ crsp = <<>> /\ events = <<>> /\ firm_day = <<>>
    /\ prices = <<>> /\ LaterIdle

NextSummary == ReceivePortfolioRow \/ summarize

SpecSummary == InitSummary /\ [][NextSummary]_vars

(***************************************************************************)
(* compute_event_returns.py: main                                          *)
(*                                                                         *)
(* absent holds the (table, column) pairs missing from the four input      *)
(* files.  main runs the steps of compute_event_returns, aggregate_firm_day,*)
(* build_portfolios and summarize in program order; polars raises          *)
(* ColumnNotFoundError in the first step that names an absent column.      *)
(* steps is the list of the steps completed, written the set of output     *)
(* files written.  With every column present main computes events,         *)
(* firm_day and portfolio from the input tables; when no event row results *)
(* pl.DataFrame([]) has no column and summarize raises ColumnNotFoundError *)
(* after both output files were written.                                   *)
(***************************************************************************)
Columns(table, names) == {<<table, c>> : c \in names}

\* the columns the code names, per input table
RequiredColumns ==
    Columns("labels", {"rp_story_id", "ticker", "headline", "label", "score"})
    \cup Columns("stories", {"rp_story_id", "ticker", "date", "is_intraday", "t15"})
    \cup Columns("taq", {"date", "ticker", "minute_ts", "mid"})
    \cup Columns("crsp", {"date", "ticker", "openprc", "closeprc"})

\* the steps of main in program order: the columns a step names, the input
\* tables whose data it computes on, the file it writes
MainSteps ==
    <<[name |-> "labels.filter",
       needs |-> Columns("labels", {"ticker"}),
       computes |-> {"labels"}, writes |-> {}],
      [name |-> "labels.select",
       needs |-> Columns("labels", {"rp_story_id", "ticker", "headline", "label", "score"}),
       computes |-> {"labels"}, writes |-> {}],
      [name |-> "read stories",
       needs |-> Columns("stories", {"rp_story_id", "ticker", "date", "is_intraday", "t15"}),
       computes |-> {}, writes |-> {}],
      [name |-> "labels.join(stories)",
       needs |-> {}, computes |-> {"labels", "stories"}, writes |-> {}],
      [name |-> "t15_naive",
       needs |-> {}, computes |-> {"labels", "stories"}, writes |-> {}],
      [name |-> "taq_date",
       needs |-> Columns("taq", {"date"}),
       computes |-> {"taq"}, writes |-> {}],
      [name |-> "events.join(taq)",
       needs |-> Columns("taq", {"ticker", "minute_ts", "mid"}),
       computes |-> {"labels", "stories", "taq"}, writes |-> {}],
      [name |-> "read crsp",
       needs |-> Columns("crsp", {"date", "ticker", "openprc", "closeprc"}),
       computes |-> {}, writes |-> {}],
      [name |-> "load_crsp_prices",
       needs |-> {}, computes |-> {"crsp"}, writes |-> {}],
      [name |-> "events.join(crsp)",
       needs |-> {}, computes |-> {"labels", "stories", "taq", "crsp"}, writes |-> {}],
      [name |-> "returns",
       needs |-> {}, computes |-> {"labels", "stories", "taq", "crsp"}, writes |-> {}],
      [name |-> "write event_returns",
       needs |-> {}, computes |-> {}, writes |-> {"event_returns.parquet"}],
      [name |-> "aggregate_firm_day",
       needs |-> {}, computes |-> {"labels", "stories", "taq", "crsp"}, writes |-> {}],
      [name |-> "build_portfolios",
       needs |-> {}, computes |-> {"labels", "stories", "taq", "crsp"},
       writes |-> {"portfolio_daily.parquet"}],
      [name |-> "summarize",
       needs |-> {}, computes |-> {"labels", "stories", "taq", "crsp"}, writes |-> {}]>>

\* the first step that names an absent column (Len(MainSteps) + 1 if none)
FirstFailure(abs) ==
    CHOOSE k \in 1..(Len(MainSteps) + 1) :
        /\ k <= Len(MainSteps) => MainSteps[k].needs \cap abs # {}
        /\ \A j \in 1..(k - 1) : MainSteps[j].needs \cap abs = {}

main ==
    /\ pc = "main"
    /\ LET k == FirstFailure(absent)
       IN IF k <= Len(MainSteps)
          THEN /\ steps' = [i \in 1..(k - 1) |-> MainSteps[i].name]
               /\ written' = UNION {MainSteps[i].writes : i \in 1..(k - 1)}
               /\ pc' = "ColumnNotFoundError"
               /\ UNCHANGED <<events, firm_day, portfolio, prices, summary>>
          ELSE \E p \in SortOrders(crsp) :
                  LET ev == EventReturns(labels, stories, taq, load_crsp_prices(crsp, p))
                  IN \E o \in GroupOrders({<<ev[i].ticker, ev[i].date>> : i \in 1..Len(ev)}) :
                        LET fd == [g \in 1..Len(o) |-> FirmDayRow(ev, o[g])]
                            pf == PortfolioTable(fd)
                            n == IF pf = <<>> THEN Len(MainSteps) - 1 ELSE Len(MainSteps)
                        IN /\ prices' = load_crsp_prices(crsp, p)
                           /\ events' = ev
                           /\ firm_day' = fd
                           /\ portfolio' = pf
                           /\ summary' = IF pf = <<>>
                                         THEN <<>>
                                         ELSE [m \in 1..Len(metrics) |-> SummaryBlock(pf, metrics[m])]
                           /\ steps' = [i \in 1..n |-> MainSteps[i].name]
                           /\ written' = UNION {MainSteps[i].writes : i \in 1..n}
                           /\ pc' = IF pf = <<>> THEN "ColumnNotFoundError" ELSE "done"
    /\ UNCHANGED <<raw, stories, labels, taq, crsp, absent, wrds, symbols, nbbo,
                   labelling, news_firmday, date_i, per_day_symbols>>

MaxAbsent == 2
LoseColumn ==
    /\ pc = "main"
    /\ Cardinality(absent) < MaxAbsent
    /\ \E c \in RequiredColumns \ absent : absent' = absent \cup {c}
    /\ UNCHANGED <<pc, raw, stories, labels, taq, crsp, events, firm_day, portfolio,
                   prices, summary, steps, written, wrds, symbols, nbbo, labelling,
                   news_firmday,
                   date_i, per_day_symbols>>

\* the input files main is run on: files without rows, or one labeled story
\* (its ticker empty or not), one story-index row (of that story or of another
\* one), and the quote and the daily prices around the story, or none
InitMain ==
    /\ pc = "main"
    /\ raw = <<>>
    /\ labels \in LabelTables \cup {<<>>}
    /\ stories \in StoryTables \cup {<<>>}
    /\ taq \in {<<>>,
                <<[date |-> 2, ticker |-> "A", minute_ts |-> StoryMinute, mid |-> Q(3)]>>}
    /\ crsp \in {<<>>,
                 <<[date |-> 1, ticker |-> "A", openprc |-> Q(3), closeprc |-> Q(-2)],
                   [date |-> 2, ticker |-> "A", openprc |-> Q(-3), closeprc |-> Q(4)],
                   [date |-> 3, ticker |-> "A", openprc |-> Q(3), closeprc |-> Q(-2)]>>}
    /\ events = <<>> /\ firm_day = <<>> /\ portfolio = <<>>
    /\ prices = <<>> /\ LaterIdle

NextMain == LoseColumn \/ main

SpecMain == InitMain /\ [][NextMain]_vars

(***************************************************************************)
(* pull_TAQ_intraday.py: pull_TAQ_intraday_nbbo                            *)
(* clean_taq_nbbo_minute.py: clean_taq_nbbo_minute                         *)
(*                                                                         *)
(* wrds holds the rows of the complete_nbbo tables: date, sym_root,        *)
(* sym_suffix, time_m (seconds since midnight), best_bid, best_ask.        *)
(* nbbo holds the per-date files nbbo_<date>.parquet in the order they    *)
(* were written, taq the panel.  symbols and per_day_symbols are the       *)
(* arguments of the pull (per_day_symbols: None and the empty dict are     *)
(* <<>>, a dict with the dates 1..n a sequence of n lists), date_i the     *)
(* position of its loop over dates.  A pull that raised may be run again.  *)
(***************************************************************************)
BATCH_SIZE == 400

\* WHERE sym_root IN (batch) AND best_bid > 0 AND best_ask > 0
\*   AND time_m >= '09:30:00' AND time_m < '16:00:00', on the table of date d
Selected(tbl, d, batch) ==
    SelectSeq(tbl, LAMBDA q :
        /\ q.date = d
        /\ \E k \in 1..Len(batch) : batch[k] = q.sym_root
        /\ FGt(q.best_bid, Q(0)) /\ FGt(q.best_ask, Q(0))
        /\ q.time_m >= 9 * 3600 + 30 * 60 /\ q.time_m < 16 * 3600)

\* date_trunc('minute', time_m)
DateTruncMinute(t) == t - (t % 60)

\* PARTITION BY sym_root, sym_suffix, date_trunc('minute', time_m)
PartitionKey(q) == <<q.sym_root, q.sym_suffix, DateTruncMinute(q.time_m)>>

\* the rows that ROW_NUMBER() ... ORDER BY time_m DESC may number 1 in the
\* partition of key: those with the latest time_m
RankedFirst(sel, key) ==
    {i \in 1..Len(sel) :
        /\ PartitionKey(sel[i]) = key
        /\ \A j \in 1..Len(sel) :
              PartitionKey(sel[j]) = key => sel[j].time_m <= sel[i].time_m}

\* SELECT date, sym_root, sym_suffix, minute_ts, (best_bid + best_ask) / 2.0
NbboRow(q) ==
    [date |-> q.date,
     sym_root |-> q.sym_root,
     sym_suffix |-> q.sym_suffix,
     minute_ts |-> q.date * 86400 + DateTruncMinute(q.time_m),
     mid |-> FDivCount(FAdd(q.best_bid, q.best_ask), 2)]

\* the results db.raw_sql may return for one batch: one row per partition,
\* any of the latest rows of a partition, the rows in any order
QueryResults(sel) ==
    LET keys == {PartitionKey(sel[i]) : i \in 1..Len(sel)}
    IN {[k \in 1..Cardinality(keys) |-> NbboRow(sel[f[o[k]]])] :
           f \in {g \in [keys -> 1..Len(sel)] : \A key \in keys : g[key] \in RankedFirst(sel, key)},
           o \in GroupOrders(keys)}

\* day_symbols[i : i + BATCH_SIZE] for the b-th batch
Batch(day_symbols, b) ==
    SubSeq(day_symbols, (b - 1) * BATCH_SIZE + 1,
           IF b * BATCH_SIZE < Len(day_symbols) THEN b * BATCH_SIZE ELSE Len(day_symbols))

\* the outcomes of the loop over the batches from b on: every query returns
\* and the rows are concatenated; the first query finds no table of the date
\* (UndefinedTable: skipped); a query raises another exception
RECURSIVE Chunks(_, _, _, _, _)
Chunks(tbl, d, day_symbols, b, table_exists) ==
    IF (b - 1) * BATCH_SIZE >= Len(day_symbols) THEN {[kind |-> "rows", rows |-> <<>>]}
    ELSE IF ~table_exists THEN {[kind |-> "skipped", rows |-> <<>>]}
    ELSE {[kind |-> "raise", rows |-> <<>>]}
         \cup {IF y.kind = "rows" THEN [kind |-> "rows", rows |-> x \o y.rows] ELSE y :
                  x \in QueryResults(Selected(tbl, d, Batch(day_symbols, b))),
                  y \in Chunks(tbl, d, day_symbols, b + 1, table_exists)}

\* the dates argument of the pull
PullDates == <<1, 2>>

\* the call: wrds.Connection connects, or raises
pull_TAQ_intraday_nbbo ==
    /\ pc \in {"pull", "Exception", "KeyError"}
    /\ \/ pc' = "dates" /\ date_i' = 1
       \/ pc' = "Exception" /\ date_i' = date_i
    /\ UNCHANGED <<raw, stories, labels, taq, crsp, events, firm_day, portfolio,
                   prices, summary, absent, steps, written, wrds, symbols, nbbo,
                   labelling, news_firmday, per_day_symbols>>

\* the position after a pass of the loop: the next date, or the return
NextDate(i) == IF i < Len(PullDates) THEN "dates" ELSE "clean"

\* one pass of the loop over dates: the date is skipped when its file exists
\* (out_path.exists()),
\* when it has no symbols or when it has no table; per_day_symbols[date_str]
\* raises KeyError for a date that is no key; the file is written otherwise
pull_date ==
    /\ pc = "dates"
    /\ date_i' = date_i + 1
    /\ IF \E k \in 1..Len(nbbo) : nbbo[k].date = PullDates[date_i]
       THEN nbbo' = nbbo /\ pc' = NextDate(date_i)
       ELSE IF per_day_symbols # <<>> /\ PullDates[date_i] \notin DOMAIN per_day_symbols
       THEN nbbo' = nbbo /\ pc' = "KeyError"
       ELSE LET day_symbols == IF per_day_symbols # <<>>
                               THEN per_day_symbols[PullDates[date_i]]
                               ELSE symbols
            IN IF day_symbols = <<>>
               THEN nbbo' = nbbo /\ pc' = NextDate(date_i)
               ELSE \E table_exists \in BOOLEAN :
                       /\ (\E k \in 1..Len(wrds) : wrds[k].date = PullDates[date_i])
                             => table_exists
                       /\ \E out \in Chunks(wrds, PullDates[date_i], day_symbols, 1,
                                            table_exists) :
                             CASE out.kind = "raise" ->
                                     nbbo' = nbbo /\ pc' = "Exception"
                               [] out.kind = "skipped" ->
                                     nbbo' = nbbo /\ pc' = NextDate(date_i)
                               [] out.kind = "rows" ->
                                     /\ nbbo' = Append(nbbo, [date |-> PullDates[date_i],
                                                              rows |-> out.rows])
                                     /\ pc' = NextDate(date_i)
    /\ UNCHANGED <<raw, stories, labels, taq, crsp, events, firm_day, portfolio,
                   prices, summary, absent, steps, written, wrds, symbols,
                   labelling, news_firmday, per_day_symbols>>

\* ticker = sym_root + sym_suffix when sym_suffix is neither null nor empty
Ticker(sym_root, sym_suffix) ==
    IF sym_suffix # NullStr /\ sym_suffix # ""
    THEN sym_root \o sym_suffix
    ELSE sym_root

\* pl.from_pandas(pdf) turns a not-a-number mid into null (nan_to_null), and
\* select(["date", "ticker", "minute_ts", "mid"]).drop_nulls("mid") drops it
CleanFile(rows) ==
    SelectSeq([i \in 1..Len(rows) |->
                  [date |-> rows[i].date,
                   ticker |-> Ticker(rows[i].sym_root, rows[i].sym_suffix),
                   minute_ts |-> rows[i].minute_ts,
                   mid |-> IF rows[i].mid = NaN THEN Null ELSE rows[i].mid]],
              LAMBDA r : r.mid # Null)

\* the files in the order of their names
SortedFiles(files) ==
    [k \in 1..Len(files) |->
        files[CHOOSE i \in 1..Len(files) :
                 Cardinality({j \in 1..Len(files) : files[j].date < files[i].date}) = k - 1]]

\* no file: FileNotFoundError; only empty files: dfs[0] of an empty list.  The
\* script reads the files that are there, after the pull returned or raised
clean_taq_nbbo_minute ==
    /\ pc \in {"clean", "Exception", "KeyError"}
    /\ LET files == SelectSeq(SortedFiles(nbbo), LAMBDA f : f.rows # <<>>)
           dfs == [k \in 1..Len(files) |-> CleanFile(files[k].rows)]
       IN IF nbbo = <<>> THEN pc' = "FileNotFoundError" /\ taq' = taq
          ELSE IF dfs = <<>> THEN pc' = "IndexError" /\ taq' = taq
          ELSE pc' = "done" /\ taq' = Flatten(dfs)
    /\ UNCHANGED <<raw, stories, labels, crsp, events, firm_day, portfolio,
                   prices, summary, absent, steps, written, wrds, symbols, nbbo, labelling,
                   news_firmday,
                   date_i, per_day_symbols>>

\* the quote tables and symbol lists the pull is run on
MaxQuotes == 2
MaxSymbols == 2
QuoteTime == 10 * 3600 + 15 * 60
SymbolLists == UNION {[1..n -> {"A", "AB"}] : n \in 0..MaxSymbols}
\* per_day_symbols with a list for the first date, or for both
PerDaySymbols == [1..1 -> SymbolLists] \cup [1..2 -> SymbolLists]
WrdsRows ==
    {[date |-> 2, sym_root |-> r, sym_suffix |-> x, time_m |-> t,
      best_bid |-> Q(b), best_ask |-> Q(b + 2)] :
        r \in {"A", "AB"}, x \in {NullStr, "", "B"},
        t \in {QuoteTime, QuoteTime + 30}, b \in {2, 4}}
    \cup {[date |-> 2, sym_root |-> "A", sym_suffix |-> NullStr, time_m |-> 16 * 3600,
           best_bid |-> Q(2), best_ask |-> Q(4)],
          [date |-> 2, sym_root |-> "A", sym_suffix |-> NullStr, time_m |-> QuoteTime,
           best_bid |-> Q(0), best_ask |-> Q(4)],
          [date |-> 1, sym_root |-> "A", sym_suffix |-> NullStr, time_m |-> QuoteTime,
           best_bid |-> Q(2), best_ask |-> Q(4)]}
WrdsRowSeq == SetToSeq(WrdsRows)

\* one more quote is in the complete_nbbo tables
ReceiveQuote ==
    /\ pc = "pull"
    /\ Len(wrds) < MaxQuotes
    /\ \E q \in NextRows(WrdsRowSeq, wrds) : wrds' = Append(wrds, q)
    /\ UNCHANGED <<pc, raw, stories, labels, taq, crsp, events, firm_day, portfolio,
                   prices, summary, absent, steps, written, symbols, nbbo, labelling,
                   news_firmday,
                   date_i, per_day_symbols>>

InitTaq ==
    /\ pc = "pull"
    /\ date_i = 0
    /\ \/ symbols \in SymbolLists /\ per_day_symbols = <<>>
       \/ symbols = <<>> /\ per_day_symbols \in PerDaySymbols
    /\ wrds = <<>> /\ nbbo = <<>> /\ taq = <<>>
    /\ raw = <<>> /\ stories = <<>> /\ labels = <<>>
    /\ crsp = <<>> /\ events = <<>> /\ firm_day = <<>> /\ portfolio = <<>>
    /\ prices = <<>> /\ summary = <<>> /\ absent = {} /\ steps = <<>> /\ written = {}
    /\ interim = <<>> /\ df_sample = <<>> /\ new_labels = <<>> /\ runs = 0 /\ news_firmday = <<>>

NextTaq ==
    ReceiveQuote \/ pull_TAQ_intraday_nbbo \/ pull_date \/ clean_taq_nbbo_minute

SpecTaq == InitTaq /\ [][NextTaq]_vars

(***************************************************************************)
(* label_headlines_gpt.py: parse_label, label_to_score, sample_headlines,  *)
(* call_gpt_on_headlines, save_results                                     *)
(*                                                                         *)
(* A response of the model is a record [is_none, text] with text a         *)
(* sequence of code points.  raw holds ravenpack_dj_equities.parquet        *)
(* (rp_story_id, headline, ticker), interim holds gpt_labels.parquet, and  *)
(* runs counts the runs of main started so far (it stands for created_at). *)
(* The runs of main follow one another; an exception ends a run.           *)
(***************************************************************************)
\* the code points str.strip() and str.split() take for whitespace
\* (str.isspace): tab to carriage return, U+001C to U+001F, space, U+0085,
\* U+00A0 and the spaces and separators from U+1680 on
IsSpace(c) ==
    c \in {9, 10, 11, 12, 13, 28, 29, 30, 31, 32, 133, 160,
           5760, 8192, 8193, 8194, 8195, 8196, 8197, 8198, 8199,
           8200, 8201, 8202, 8232, 8233, 8239, 8287, 12288}

\* str.strip() is RStrip of LStrip
RECURSIVE LStrip(_)
LStrip(t) == IF t # <<>> /\ IsSpace(Head(t)) THEN LStrip(Tail(t)) ELSE t
RECURSIVE RStrip(_)
RStrip(t) ==
    IF t # <<>> /\ IsSpace(t[Len(t)]) THEN RStrip(SubSeq(t, 1, Len(t) - 1)) ELSE t

\* the length of the leading run of characters that are not whitespace
RECURSIVE WordLen(_)
WordLen(t) == IF t = <<>> \/ IsSpace(Head(t)) THEN 0 ELSE 1 + WordLen(Tail(t))

\* str.split(): the words between runs of whitespace
RECURSIVE Split(_)
Split(t) ==
    LET u == LStrip(t)
    IN IF u = <<>> THEN <<>>
       ELSE <<SubSeq(u, 1, WordLen(u))>> \o Split(SubSeq(u, WordLen(u) + 1, Len(u)))

\* str.upper() of one code point, as the code points of the result: a to z
\* and the other cased letters of Unicode 14, some of which give two or three
\* code points (U+00DF gives SS)
UpperChar(c) ==
    IF c < 181
    THEN (IF c >= 97 /\ c <= 122 THEN <<c - 32>> ELSE <<c>>)
    ELSE
         CASE c = 223 -> <<83, 83>> [] c = 329 -> <<700, 78>>
           [] c = 496 -> <<74, 780>> [] c = 912 -> <<921, 776, 769>>
           [] c = 944 -> <<933, 776, 769>> [] c = 1415 -> <<1333, 1362>>
           [] c = 7830 -> <<72, 817>> [] c = 7831 -> <<84, 776>>
           [] c = 7832 -> <<87, 778>> [] c = 7833 -> <<89, 778>>
           [] c = 7834 -> <<65, 702>> [] c = 8016 -> <<933, 787>>
           [] c = 8018 -> <<933, 787, 768>> [] c = 8020 -> <<933, 787, 769>>
           [] c = 8022 -> <<933, 787, 834>> [] c = 8064 -> <<7944, 921>>
           [] c = 8065 -> <<7945, 921>> [] c = 8066 -> <<7946, 921>>
           [] c = 8067 -> <<7947, 921>> [] c = 8068 -> <<7948, 921>>
           [] c = 8069 -> <<7949, 921>> [] c = 8070 -> <<7950, 921>>
           [] c = 8071 -> <<7951, 921>> [] c = 8072 -> <<7944, 921>>
           [] c = 8073 -> <<7945, 921>> [] c = 8074 -> <<7946, 921>>
           [] c = 8075 -> <<7947, 921>> [] c = 8076 -> <<7948, 921>>
           [] c = 8077 -> <<7949, 921>> [] c = 8078 -> <<7950, 921>>
           [] c = 8079 -> <<7951, 921>> [] c = 8080 -> <<7976, 921>>
           [] c = 8081 -> <<7977, 921>> [] c = 8082 -> <<7978, 921>>
           [] c = 8083 -> <<7979, 921>> [] c = 8084 -> <<7980, 921>>
           [] c = 8085 -> <<7981, 921>> [] c = 8086 -> <<7982, 921>>
           [] c = 8087 -> <<7983, 921>> [] c = 8088 -> <<7976, 921>>
           [] c = 8089 -> <<7977, 921>> [] c = 8090 -> <<7978, 921>>
           [] c = 8091 -> <<7979, 921>> [] c = 8092 -> <<7980, 921>>
           [] c = 8093 -> <<7981, 921>> [] c = 8094 -> <<7982, 921>>
           [] c = 8095 -> <<7983, 921>> [] c = 8096 -> <<8040, 921>>
           [] c = 8097 -> <<8041, 921>> [] c = 8098 -> <<8042, 921>>
           [] c = 8099 -> <<8043, 921>> [] c = 8100 -> <<8044, 921>>
           [] c = 8101 -> <<8045, 921>> [] c = 8102 -> <<8046, 921>>
           [] c = 8103 -> <<8047, 921>> [] c = 8104 -> <<8040, 921>>
           [] c = 8105 -> <<8041, 921>> [] c = 8106 -> <<8042, 921>>
           [] c = 8107 -> <<8043, 921>> [] c = 8108 -> <<8044, 921>>
           [] c = 8109 -> <<8045, 921>> [] c = 8110 -> <<8046, 921>>
           [] c = 8111 -> <<8047, 921>> [] c = 8114 -> <<8122, 921>>
           [] c = 8115 -> <<913, 921>> [] c = 8116 -> <<902, 921>>
           [] c = 8118 -> <<913, 834>> [] c = 8119 -> <<913, 834, 921>>
           [] c = 8124 -> <<913, 921>> [] c = 8130 -> <<8138, 921>>
           [] c = 8131 -> <<919, 921>> [] c = 8132 -> <<905, 921>>
           [] c = 8134 -> <<919, 834>> [] c = 8135 -> <<919, 834, 921>>
           [] c = 8140 -> <<919, 921>> [] c = 8146 -> <<921, 776, 768>>
           [] c = 8147 -> <<921, 776, 769>> [] c = 8150 -> <<921, 834>>
           [] c = 8151 -> <<921, 776, 834>> [] c = 8162 -> <<933, 776, 768>>
           [] c = 8163 -> <<933, 776, 769>> [] c = 8164 -> <<929, 787>>
           [] c = 8166 -> <<933, 834>> [] c = 8167 -> <<933, 776, 834>>
           [] c = 8178 -> <<8186, 921>> [] c = 8179 -> <<937, 921>>
           [] c = 8180 -> <<911, 921>> [] c = 8182 -> <<937, 834>>
           [] c = 8183 -> <<937, 834, 921>> [] c = 8188 -> <<937, 921>>
           [] c = 64256 -> <<70, 70>> [] c = 64257 -> <<70, 73>>
           [] c = 64258 -> <<70, 76>> [] c = 64259 -> <<70, 70, 73>>
           [] c = 64260 -> <<70, 70, 76>> [] c = 64261 -> <<83, 84>>
           [] c = 64262 -> <<83, 84>> [] c = 64275 -> <<1348, 1350>>
           [] c = 64276 -> <<1348, 1333>> [] c = 64277 -> <<1348, 1339>>
           [] c = 64278 -> <<1358, 1350>> [] c = 64279 -> <<1348, 1341>>
           [] c = 181 -> <<c + 743>> [] c >= 224 /\ c <= 246 -> <<c - 32>>
           [] c >= 248 /\ c <= 254 -> <<c - 32>> [] c = 255 -> <<c + 121>>
           [] c >= 257 /\ c <= 303 /\ (c - 257) % 2 = 0 -> <<c - 1>>
           [] c = 305 -> <<c - 232>>
           [] c >= 307 /\ c <= 311 /\ (c - 307) % 2 = 0 -> <<c - 1>>
           [] c >= 314 /\ c <= 328 /\ (c - 314) % 2 = 0 -> <<c - 1>>
           [] c >= 331 /\ c <= 375 /\ (c - 331) % 2 = 0 -> <<c - 1>>
           [] c >= 378 /\ c <= 382 /\ (c - 378) % 2 = 0 -> <<c - 1>>
           [] c = 383 -> <<c - 300>> [] c = 384 -> <<c + 195>>
           [] c >= 387 /\ c <= 389 /\ (c - 387) % 2 = 0 -> <<c - 1>>
           [] c = 392 -> <<c - 1>> [] c = 396 -> <<c - 1>>
           [] c = 402 -> <<c - 1>> [] c = 405 -> <<c + 97>>
           [] c = 409 -> <<c - 1>> [] c = 410 -> <<c + 163>>
           [] c = 414 -> <<c + 130>>
           [] c >= 417 /\ c <= 421 /\ (c - 417) % 2 = 0 -> <<c - 1>>
           [] c = 424 -> <<c - 1>> [] c = 429 -> <<c - 1>>
           [] c = 432 -> <<c - 1>>
           [] c >= 436 /\ c <= 438 /\ (c - 436) % 2 = 0 -> <<c - 1>>
           [] c = 441 -> <<c - 1>> [] c = 445 -> <<c - 1>>
           [] c = 447 -> <<c + 56>> [] c = 453 -> <<c - 1>>
           [] c = 454 -> <<c - 2>> [] c = 456 -> <<c - 1>>
           [] c = 457 -> <<c - 2>> [] c = 459 -> <<c - 1>>
           [] c = 460 -> <<c - 2>>
           [] c >= 462 /\ c <= 476 /\ (c - 462) % 2 = 0 -> <<c - 1>>
           [] c = 477 -> <<c - 79>>
           [] c >= 479 /\ c <= 495 /\ (c - 479) % 2 = 0 -> <<c - 1>>
           [] c = 498 -> <<c - 1>> [] c = 499 -> <<c - 2>>
           [] c = 501 -> <<c - 1>>
           [] c >= 505 /\ c <= 543 /\ (c - 505) % 2 = 0 -> <<c - 1>>
           [] c >= 547 /\ c <= 563 /\ (c - 547) % 2 = 0 -> <<c - 1>>
           [] c = 572 -> <<c - 1>> [] c >= 575 /\ c <= 576 -> <<c + 10815>>
           [] c = 578 -> <<c - 1>>
           [] c >= 583 /\ c <= 591 /\ (c - 583) % 2 = 0 -> <<c - 1>>
           [] c = 592 -> <<c + 10783>> [] c = 593 -> <<c + 10780>>
           [] c = 594 -> <<c + 10782>> [] c = 595 -> <<c - 210>>
           [] c = 596 -> <<c - 206>> [] c >= 598 /\ c <= 599 -> <<c - 205>>
           [] c = 601 -> <<c - 202>> [] c = 603 -> <<c - 203>>
           [] c = 604 -> <<c + 42319>> [] c = 608 -> <<c - 205>>
           [] c = 609 -> <<c + 42315>> [] c = 611 -> <<c - 207>>
           [] c = 613 -> <<c + 42280>> [] c = 614 -> <<c + 42308>>
           [] c = 616 -> <<c - 209>> [] c = 617 -> <<c - 211>>
           [] c = 618 -> <<c + 42308>> [] c = 619 -> <<c + 10743>>
           [] c = 620 -> <<c + 42305>> [] c = 623 -> <<c - 211>>
           [] c = 625 -> <<c + 10749>> [] c = 626 -> <<c - 213>>
           [] c = 629 -> <<c - 214>> [] c = 637 -> <<c + 10727>>
           [] c = 640 -> <<c - 218>> [] c = 642 -> <<c + 42307>>
           [] c = 643 -> <<c - 218>> [] c = 647 -> <<c + 42282>>
           [] c = 648 -> <<c - 218>> [] c = 649 -> <<c - 69>>
           [] c >= 650 /\ c <= 651 -> <<c - 217>> [] c = 652 -> <<c - 71>>
           [] c = 658 -> <<c - 219>> [] c = 669 -> <<c + 42261>>
           [] c = 670 -> <<c + 42258>> [] c = 837 -> <<c + 84>>
           [] c >= 881 /\ c <= 883 /\ (c - 881) % 2 = 0 -> <<c - 1>>
           [] c = 887 -> <<c - 1>> [] c >= 891 /\ c <= 893 -> <<c + 130>>
           [] c = 940 -> <<c - 38>> [] c >= 941 /\ c <= 943 -> <<c - 37>>
           [] c >= 945 /\ c <= 961 -> <<c - 32>> [] c = 962 -> <<c - 31>>
           [] c >= 963 /\ c <= 971 -> <<c - 32>> [] c = 972 -> <<c - 64>>
           [] c >= 973 /\ c <= 974 -> <<c - 63>> [] c = 976 -> <<c - 62>>
           [] c = 977 -> <<c - 57>> [] c = 981 -> <<c - 47>>
           [] c = 982 -> <<c - 54>> [] c = 983 -> <<c - 8>>
           [] c >= 985 /\ c <= 1007 /\ (c - 985) % 2 = 0 -> <<c - 1>>
           [] c = 1008 -> <<c - 86>> [] c = 1009 -> <<c - 80>>
           [] c = 1010 -> <<c + 7>> [] c = 1011 -> <<c - 116>>
           [] c = 1013 -> <<c - 96>> [] c = 1016 -> <<c - 1>>
           [] c = 1019 -> <<c - 1>> [] c >= 1072 /\ c <= 1103 -> <<c - 32>>
           [] c >= 1104 /\ c <= 1119 -> <<c - 80>>
           [] c >= 1121 /\ c <= 1153 /\ (c - 1121) % 2 = 0 -> <<c - 1>>
           [] c >= 1163 /\ c <= 1215 /\ (c - 1163) % 2 = 0 -> <<c - 1>>
           [] c >= 1218 /\ c <= 1230 /\ (c - 1218) % 2 = 0 -> <<c - 1>>
           [] c = 1231 -> <<c - 15>>
           [] c >= 1233 /\ c <= 1327 /\ (c - 1233) % 2 = 0 -> <<c - 1>>
           [] c >= 1377 /\ c <= 1414 -> <<c - 48>>
           [] c >= 4304 /\ c <= 4346 -> <<c + 3008>>
           [] c >= 4349 /\ c <= 4351 -> <<c + 3008>>
           [] c >= 5112 /\ c <= 5117 -> <<c - 8>> [] c = 7296 -> <<c - 6254>>
           [] c = 7297 -> <<c - 6253>> [] c = 7298 -> <<c - 6244>>
           [] c >= 7299 /\ c <= 7300 -> <<c - 6242>> [] c = 7301 -> <<c - 6243>>
           [] c = 7302 -> <<c - 6236>> [] c = 7303 -> <<c - 6181>>
           [] c = 7304 -> <<c + 35266>> [] c = 7545 -> <<c + 35332>>
           [] c = 7549 -> <<c + 3814>> [] c = 7566 -> <<c + 35384>>
           [] c >= 7681 /\ c <= 7829 /\ (c - 7681) % 2 = 0 -> <<c - 1>>
           [] c = 7835 -> <<c - 59>>
           [] c >= 7841 /\ c <= 7935 /\ (c - 7841) % 2 = 0 -> <<c - 1>>
           [] c >= 7936 /\ c <= 7943 -> <<c + 8>>
           [] c >= 7952 /\ c <= 7957 -> <<c + 8>>
           [] c >= 7968 /\ c <= 7975 -> <<c + 8>>
           [] c >= 7984 /\ c <= 7991 -> <<c + 8>>
           [] c >= 8000 /\ c <= 8005 -> <<c + 8>>
           [] c >= 8017 /\ c <= 8023 /\ (c - 8017) % 2 = 0 -> <<c + 8>>
           [] c >= 8032 /\ c <= 8039 -> <<c + 8>>
           [] c >= 8048 /\ c <= 8049 -> <<c + 74>>
           [] c >= 8050 /\ c <= 8053 -> <<c + 86>>
           [] c >= 8054 /\ c <= 8055 -> <<c + 100>>
           [] c >= 8056 /\ c <= 8057 -> <<c + 128>>
           [] c >= 8058 /\ c <= 8059 -> <<c + 112>>
           [] c >= 8060 /\ c <= 8061 -> <<c + 126>>
           [] c >= 8112 /\ c <= 8113 -> <<c + 8>> [] c = 8126 -> <<c - 7205>>
           [] c >= 8144 /\ c <= 8145 -> <<c + 8>>
           [] c >= 8160 /\ c <= 8161 -> <<c + 8>> [] c = 8165 -> <<c + 7>>
           [] c = 8526 -> <<c - 28>> [] c >= 8560 /\ c <= 8575 -> <<c - 16>>
           [] c = 8580 -> <<c - 1>> [] c >= 9424 /\ c <= 9449 -> <<c - 26>>
           [] c >= 11312 /\ c <= 11359 -> <<c - 48>> [] c = 11361 -> <<c - 1>>
           [] c = 11365 -> <<c - 10795>> [] c = 11366 -> <<c - 10792>>
           [] c >= 11368 /\ c <= 11372 /\ (c - 11368) % 2 = 0 -> <<c - 1>>
           [] c = 11379 -> <<c - 1>> [] c = 11382 -> <<c - 1>>
           [] c >= 11393 /\ c <= 11491 /\ (c - 11393) % 2 = 0 -> <<c - 1>>
           [] c >= 11500 /\ c <= 11502 /\ (c - 11500) % 2 = 0 -> <<c - 1>>
           [] c = 11507 -> <<c - 1>> [] c >= 11520 /\ c <= 11557 -> <<c - 7264>>
           [] c = 11559 -> <<c - 7264>> [] c = 11565 -> <<c - 7264>>
           [] c >= 42561 /\ c <= 42605 /\ (c - 42561) % 2 = 0 -> <<c - 1>>
           [] c >= 42625 /\ c <= 42651 /\ (c - 42625) % 2 = 0 -> <<c - 1>>
           [] c >= 42787 /\ c <= 42799 /\ (c - 42787) % 2 = 0 -> <<c - 1>>
           [] c >= 42803 /\ c <= 42863 /\ (c - 42803) % 2 = 0 -> <<c - 1>>
           [] c >= 42874 /\ c <= 42876 /\ (c - 42874) % 2 = 0 -> <<c - 1>>
           [] c >= 42879 /\ c <= 42887 /\ (c - 42879) % 2 = 0 -> <<c - 1>>
           [] c = 42892 -> <<c - 1>>
           [] c >= 42897 /\ c <= 42899 /\ (c - 42897) % 2 = 0 -> <<c - 1>>
           [] c = 42900 -> <<c + 48>>
           [] c >= 42903 /\ c <= 42921 /\ (c - 42903) % 2 = 0 -> <<c - 1>>
           [] c >= 42933 /\ c <= 42947 /\ (c - 42933) % 2 = 0 -> <<c - 1>>
           [] c >= 42952 /\ c <= 42954 /\ (c - 42952) % 2 = 0 -> <<c - 1>>
           [] c = 42961 -> <<c - 1>>
           [] c >= 42967 /\ c <= 42969 /\ (c - 42967) % 2 = 0 -> <<c - 1>>
           [] c = 42998 -> <<c - 1>> [] c = 43859 -> <<c - 928>>
           [] c >= 43888 /\ c <= 43967 -> <<c - 38864>>
           [] c >= 65345 /\ c <= 65370 -> <<c - 32>>
           [] c >= 66600 /\ c <= 66639 -> <<c - 40>>
           [] c >= 66776 /\ c <= 66811 -> <<c - 40>>
           [] c >= 66967 /\ c <= 67003 /\ (c - 66967) % 2 = 0 -> <<c - 39>>
           [] c >= 66968 /\ c <= 66977 -> <<c - 39>>
           [] c >= 66980 /\ c <= 66993 -> <<c - 39>>
           [] c >= 66996 /\ c <= 67001 -> <<c - 39>> [] c = 67004 -> <<c - 39>>
           [] c >= 68800 /\ c <= 68850 -> <<c - 64>>
           [] c >= 71872 /\ c <= 71903 -> <<c - 32>>
           [] c >= 93792 /\ c <= 93823 -> <<c - 32>>
           [] c >= 125218 /\ c <= 125251 -> <<c - 34>>
           [] OTHER -> <<c>>

\* str.upper()
Upper(t) == Flatten([i \in 1..Len(t) |-> UpperChar(t[i])])

\* the label a word stands for
WordLabel(w) ==
    IF w = <<89, 69, 83>> THEN "YES"
    ELSE IF w = <<78, 79>> THEN "NO"
    ELSE "UNKNOWN"

\* parse_label: (raw_text or "").strip().split()[0].upper(), None and "" both
\* giving the empty text; indexing the empty list raises IndexError
parse_label(raw_text) ==
    LET text == IF raw_text.is_none THEN <<>> ELSE raw_text.text
        words == Split(RStrip(LStrip(text)))
    IN IF words = <<>> THEN "IndexError" ELSE WordLabel(Upper(words[1]))

\* mapping.get(label, 0.5)
label_to_score(label) ==
    CASE label = "YES" -> Q(1)
      [] label = "NO" -> Q(0)
      [] OTHER -> Half

\* the rows of t at the positions in idx, in the order of t
RowsAt(t, idx) == [k \in 1..Cardinality(idx) |-> t[SortedSeqOf(idx)[k]]]

\* drop_duplicates(subset=["rp_story_id"]): the first row of every id
DropDuplicatesFirst(t) ==
    RowsAt(t, {i \in 1..Len(t) :
                  \A j \in 1..(i - 1) : t[j].rp_story_id # t[i].rp_story_id})

\* drop_duplicates(subset=["rp_story_id"], keep="last")
DropDuplicatesLast(t) ==
    RowsAt(t, {i \in 1..Len(t) :
                  \A j \in (i + 1)..Len(t) : t[j].rp_story_id # t[i].rp_story_id})

\* Candidates without the filter on the ids already labeled
Candidates_unfiltered(rw, existing) ==
    DropDuplicatesFirst(SelectSeq(rw, LAMBDA r : r.headline # NullStr))

\* the rows sample_headlines draws from: headline not null, one row per id,
\* ids of the interim file removed
Candidates(rw, existing) ==
    SelectSeq(DropDuplicatesFirst(SelectSeq(rw, LAMBDA r : r.headline # NullStr)),
              LAMBDA r : \A k \in 1..Len(existing) :
                            existing[k].rp_story_id # r.rp_story_id)

\* df.sample(n=n_sample): n_sample different rows, in any order
Samples(df, n_sample) ==
    {[k \in 1..n_sample |-> df[f[k]]] :
        f \in {g \in [1..n_sample -> 1..Len(df)] :
                  \A i, j \in 1..n_sample : i # j => g[i] # g[j]}}

\* the bounds of the runs: runs of main, and its sample_size
MaxRuns == 3
SampleSize == 2

\* one run of main begins: an empty sample ends it at once
sample_headlines ==
    /\ pc \in {"sample", "IndexError"}
    /\ runs < MaxRuns
    /\ runs' = runs + 1
    /\ new_labels' = <<>>
    /\ LET df == Candidates(raw, interim)
       IN IF Len(df) = 0
          THEN df_sample' = <<>> /\ pc' = "sample"
          ELSE /\ df_sample' \in Samples(df, IF SampleSize < Len(df) THEN SampleSize
                                              ELSE Len(df))
               /\ pc' = "label"
    /\ UNCHANGED <<raw, stories, labels, taq, crsp, events, firm_day, portfolio,
                   prices, summary, absent, steps, written, wrds, symbols, nbbo,
                   interim, news_firmday,
                   date_i, per_day_symbols>>

\* the texts the model may answer with
Responses ==
    {[is_none |-> TRUE, text |-> <<>>],
     \* ""
     [is_none |-> FALSE,
      text |-> <<>>],
     \* " \n"
     [is_none |-> FALSE,
      text |-> <<32, 10>>],
     \* "\r\n"
     [is_none |-> FALSE,
      text |-> <<13, 10>>],
     \* "\x0b"
     [is_none |-> FALSE,
      text |-> <<11>>],
     \* "YES"
     [is_none |-> FALSE,
      text |-> <<89, 69, 83>>],
     \* "yes\nGood"
     [is_none |-> FALSE,
      text |-> <<121, 101, 115, 10, 71, 111, 111, 100>>],
     \* "YES\r\nGood news"
     [is_none |-> FALSE,
      text |-> <<89, 69, 83, 13, 10, 71, 111, 111, 100, 32, 110, 101, 119, 115>>],
     \* " No bad"
     [is_none |-> FALSE,
      text |-> <<32, 78, 111, 32, 98, 97, 100>>],
     \* "no"
     [is_none |-> FALSE,
      text |-> <<110, 111>>],
     \* "\xa0NO"
     [is_none |-> FALSE,
      text |-> <<160, 78, 79>>],
     \* "UNKNOWN"
     [is_none |-> FALSE,
      text |-> <<85, 78, 75, 78, 79, 87, 78>>],
     \* "unknown"
     [is_none |-> FALSE,
      text |-> <<117, 110, 107, 110, 111, 119, 110>>],
     \* "Maybe"
     [is_none |-> FALSE,
      text |-> <<77, 97, 121, 98, 101>>],
     \* "YES."
     [is_none |-> FALSE,
      text |-> <<89, 69, 83, 46>>],
     \* "ye\u017f"
     [is_none |-> FALSE,
      text |-> <<121, 101, 383>>],
     \* "\xdf"
     [is_none |-> FALSE,
      text |-> <<223>>]}

\* str(x): a string is itself, None reads "None"
Str(x) == IF x = NullStr THEN "None" ELSE x

\* the GPTLabel of a sampled row and the model's answer to it; the ticker is
\* str(row.get("ticker", "") or "")
GPTLabel(row, raw_text, created_at) ==
    [rp_story_id |-> Str(row.rp_story_id),
     ticker |-> IF row.ticker = NullStr THEN "" ELSE Str(row.ticker),
     headline |-> Str(row.headline),
     label |-> parse_label(raw_text),
     score |-> label_to_score(parse_label(raw_text)),
     created_at |-> created_at]

\* the loop over the sample; an exception in parse_label ends the run
call_gpt_on_headlines ==
    /\ pc = "label"
    /\ \E resp \in [1..Len(df_sample) -> Responses] :
          IF \E i \in 1..Len(df_sample) : parse_label(resp[i]) = "IndexError"
          THEN /\ pc' = "IndexError"
               /\ new_labels' = <<>>
          ELSE /\ pc' = "save"
               /\ new_labels' = [i \in 1..Len(df_sample) |->
                                    GPTLabel(df_sample[i], resp[i], runs)]
    /\ UNCHANGED <<raw, stories, labels, taq, crsp, events, firm_day, portfolio,
                   prices, summary, absent, steps, written, wrds, symbols, nbbo,
                   interim, df_sample, runs, news_firmday,
                   date_i, per_day_symbols>>

\* pd.concat([existing, df_new]).drop_duplicates(keep="last"), written back
save_results ==
    /\ pc = "save"
    /\ interim' = IF new_labels = <<>> THEN interim
                  ELSE DropDuplicatesLast(interim \o new_labels)
    /\ pc' = "sample"
    /\ UNCHANGED <<raw, stories, labels, taq, crsp, events, firm_day, portfolio,
                   prices, summary, absent, steps, written, wrds, symbols, nbbo,
                   df_sample, new_labels, runs, news_firmday,
                   date_i, per_day_symbols>>

\* the raw news file, every row with its story id: story 1 on two rows, story 3 without a headline,
\* story 4 without a ticker
RawHeadlines ==
    <<[rp_story_id |-> "s1", headline |-> "h1", ticker |-> "A"],
      [rp_story_id |-> "s1", headline |-> "h1", ticker |-> "B"],
      [rp_story_id |-> "s2", headline |-> "h2", ticker |-> "A"],
      [rp_story_id |-> "s3", headline |-> NullStr, ticker |-> "A"],
      [rp_story_id |-> "s4", headline |-> "h4", ticker |-> NullStr]>>

InitLabel ==
    /\ pc = "sample"
    /\ raw = RawHeadlines
    /\ interim = <<>> /\ df_sample = <<>> /\ new_labels = <<>> /\ runs = 0 /\ news_firmday = <<>>
    /\ date_i = 0 /\ per_day_symbols = <<>>
    /\ stories = <<>> /\ labels = <<>> /\ taq = <<>> /\ crsp = <<>>
    /\ events = <<>> /\ firm_day = <<>> /\ portfolio = <<>> /\ prices = <<>>
    /\ summary = <<>> /\ absent = {} /\ steps = <<>> /\ written = {}
    /\ wrds = <<>> /\ symbols = <<>> /\ nbbo = <<>>

NextLabel == sample_headlines \/ call_gpt_on_headlines \/ save_results

SpecLabel == InitLabel /\ [][NextLabel]_vars

(***************************************************************************)
(* clean_ravenpack_firmday.py: _trading_date_expr, clean_ravenpack_firmday *)
(*                                                                         *)
(* news_firmday holds news_firmday.parquet: ticker, date, timestamps_utc,  *)
(* story_ids, n_headlines (cusip, relevance, event_similarity_days and     *)
(* headlines are left out).  The script writes the firm-day news table     *)
(* first and the story index after it, both from the same raw file.        *)
(***************************************************************************)
\* _trading_date_expr that moves to the next day only after 16:00
_trading_date_expr_strict(loc) ==
    IF 60 * DtHour(loc) + DtMinute(loc) > 16 * 60 THEN DtDate(loc) + 1 ELSE DtDate(loc)

\* hour = dt.hour() + dt.minute() / 60.0 and hour >= 16.0, both sides times 60
_trading_date_expr(loc) ==
    IF 60 * DtHour(loc) + DtMinute(loc) >= 16 * 60 THEN DtDate(loc) + 1 ELSE DtDate(loc)

\* with_columns(_trading_date_expr().alias("date")) on the rows with a ticker
WithTradingDate(rw) ==
    [i \in 1..Len(SelectSeq(rw, LAMBDA r : r.ticker # NullStr)) |->
        [rp_story_id |-> SelectSeq(rw, LAMBDA r : r.ticker # NullStr)[i].rp_story_id,
         timestamp_utc |-> SelectSeq(rw, LAMBDA r : r.ticker # NullStr)[i].timestamp_utc,
         ticker |-> SelectSeq(rw, LAMBDA r : r.ticker # NullStr)[i].ticker,
         date |-> _trading_date_expr(ConvertTimeZone(UtcSeconds(
                     SelectSeq(rw, LAMBDA r : r.ticker # NullStr)[i].timestamp_utc)))]]

\* the aggregates of one (ticker, date) group, lists in the order of the rows
NewsFirmDayRow(df, key) ==
    LET grp == SelectSeq(df, LAMBDA r : <<r.ticker, r.date>> = key)
    IN [ticker |-> key[1],
        date |-> key[2],
        timestamps_utc |-> [i \in 1..Len(grp) |-> grp[i].timestamp_utc],
        story_ids |-> [i \in 1..Len(grp) |-> grp[i].rp_story_id],
        n_headlines |-> Len(grp)]

\* group_by(["ticker", "date"]).agg(...): the groups come in any order
clean_ravenpack_firmday ==
    /\ pc = "firmday"
    /\ \E o \in GroupOrders({<<WithTradingDate(raw)[i].ticker, WithTradingDate(raw)[i].date>> :
                               i \in 1..Len(WithTradingDate(raw))}) :
          news_firmday' = [k \in 1..Len(o) |-> NewsFirmDayRow(WithTradingDate(raw), o[k])]
    /\ pc' = "story"
    /\ UNCHANGED <<raw, stories, labels, taq, crsp, events, firm_day, portfolio,
                   prices, summary, absent, steps, written, wrds, symbols, nbbo,
                   labelling,
                   date_i, per_day_symbols>>

InitNews ==
    /\ pc = "firmday"
    /\ raw \in {<<r>> : r \in RawRows}
    /\ stories = <<>>
    /\ labels = <<>> /\ taq = <<>> /\ crsp = <<>>
    /\ events = <<>> /\ firm_day = <<>> /\ portfolio = <<>>
    /\ prices = <<>> /\ LaterIdle

NextNews == clean_ravenpack_firmday \/ build_news_intraday_story

SpecNews == InitNews /\ [][NextNews]_vars

(***************************************************************************)
(* Properties                                                              *)
(***************************************************************************)
\* local time of day of a story row: whole seconds since local midnight and
\* the microseconds within the second; t is a whole second of the day
LocalSecondOfDay(st) == st.timestamp_et.second % 86400
LocalDate(st) == st.timestamp_et.second \div 86400
At(h, m, sec) == (h * 60 + m) * 60 + sec
StrictlyBefore(st, t) == LocalSecondOfDay(st) < t
Exactly(st, t) == LocalSecondOfDay(st) = t /\ st.timestamp_et.micro = 0

\* C5: the trading date of a story is its local calendar date when the local
\* time of day is strictly before 16:00:00, and the next calendar day when the
\* local time is 16:00:00 or later (exactly 16:00:00 rolls over).
C5_TradingDateCutoff ==
    pc = "done" =>
        \A i \in 1..Len(stories) :
            stories[i].date =
                IF StrictlyBefore(stories[i], At(16, 0, 0))
                THEN LocalDate(stories[i])
                ELSE LocalDate(stories[i]) + 1

\* a story stamped exactly 16:00:00 local time was given the next day
C5_Witness ==
    /\ pc = "done"
    /\ \E i \in 1..Len(stories) :
        /\ Exactly(stories[i], At(16, 0, 0))
        /\ stories[i].date = LocalDate(stories[i]) + 1

\* C6: is_intraday is true iff the local time of day lies in
\* [09:30:00, 16:00:00).
C6_IntradayWindow ==
    pc = "done" =>
        \A i \in 1..Len(stories) :
            stories[i].is_intraday <=>
                /\ ~StrictlyBefore(stories[i], At(9, 30, 0))
                /\ StrictlyBefore(stories[i], At(16, 0, 0))

\* a story stamped exactly 09:30:00 local time was flagged intraday
C6_Witness ==
    /\ pc = "done"
    /\ \E i \in 1..Len(stories) :
        /\ Exactly(stories[i], At(9, 30, 0))
        /\ stories[i].is_intraday

Metrics == {"initial_reaction", "drift"}
MetricOf(r, m) == IF m = "initial_reaction" THEN r.initial_reaction ELSE r.drift
LongOnlyOf(p, m) == IF m = "initial_reaction" THEN p.ir_long_only ELSE p.drift_long_only
ShortOnlyOf(p, m) == IF m = "initial_reaction" THEN p.ir_short_only ELSE p.drift_short_only
LongShortOf(p, m) == IF m = "initial_reaction" THEN p.ir_long_short ELSE p.drift_long_short

\* the firm-days of a date and sentiment that carry a value of the metric
Members(d, sent, m) ==
    {i \in 1..Len(firm_day) :
        /\ firm_day[i].date = d
        /\ firm_day[i].sentiment = sent
        /\ MetricOf(firm_day[i], m) # Null}

RECURSIVE TotalOver(_, _)
TotalOver(I, m) ==
    IF I = {} THEN Q(0)
    ELSE LET i == CHOOSE j \in I : TRUE
         IN FAdd(MetricOf(firm_day[i], m), TotalOver(I \ {i}, m))

\* v is the mean of the metric over the members I: v * |I| = total(I)
IsMeanOver(v, I, m) ==
    /\ I # {}
    /\ IsFinite(v)
    /\ v[1] * Cardinality(I) * TotalOver(I, m)[2] = v[2] * TotalOver(I, m)[1]

\* v is (mean over I) - (mean over J)
IsMeanDifference(v, I, J, m) ==
    /\ I # {} /\ J # {}
    /\ IsFinite(v)
    /\ LET a == TotalOver(I, m)
           b == TotalOver(J, m)
       IN v[1] * (a[2] * Cardinality(I) * b[2] * Cardinality(J))
            = v[2] * (a[1] * b[2] * Cardinality(J) - b[1] * a[2] * Cardinality(I))

\* C1: the long-short value of a date row is null when n_positive < 2 or
\* n_negative < 2, and otherwise is non-null and equals the mean of the metric
\* over the positive firm-days minus its mean over the negative firm-days.
C1_LongShortRule ==
    pc = "done" =>
        \A k \in 1..Len(portfolio) : \A m \in Metrics :
            LET p == portfolio[k]
            IN IF p.n_positive < 2 \/ p.n_negative < 2
               THEN LongShortOf(p, m) = Null
               ELSE IsMeanDifference(LongShortOf(p, m),
                                     Members(p.date, "positive", m),
                                     Members(p.date, "negative", m), m)

\* C2: whenever the long-short value of a row is non-null, the long-leg mean
\* and the short-leg mean of that metric are non-null in the same row.
C2_NoNullAsZero ==
    pc = "done" =>
        \A k \in 1..Len(portfolio) : \A m \in Metrics :
            LongShortOf(portfolio[k], m) # Null =>
                /\ LongOnlyOf(portfolio[k], m) # Null
                /\ ShortOnlyOf(portfolio[k], m) # Null

\* C3: long_only is the mean of the metric over the date's positive firm-days
\* and short_only the negated mean over its negative firm-days; each is null
\* when the leg has no value to average.
C3_LegMeans ==
    pc = "done" =>
        \A k \in 1..Len(portfolio) : \A m \in Metrics :
            LET p == portfolio[k]
                I == Members(p.date, "positive", m)
                J == Members(p.date, "negative", m)
            IN /\ IF I = {} THEN LongOnlyOf(p, m) = Null
                  ELSE IsMeanOver(LongOnlyOf(p, m), I, m)
               /\ IF J = {} THEN ShortOnlyOf(p, m) = Null
                  ELSE /\ ShortOnlyOf(p, m) # Null
                       /\ IsMeanOver(FNeg(ShortOnlyOf(p, m)), J, m)

\* a date whose two negative firm-days have values -1 and 2 of one metric and
\* -3 of the other: short_only is reported as -1/2 and as +3
C3_Witness ==
    /\ pc = "done"
    /\ \E k \in 1..Len(portfolio) :
        /\ portfolio[k].n_negative = 2
        /\ portfolio[k].n_positive >= 1
        /\ portfolio[k].ir_short_only = <<-1, 2>>
        /\ portfolio[k].drift_short_only = Q(3)
        /\ portfolio[k].ir_long_only # Null

\* the stories of a firm-day
StoriesOf(f) ==
    {i \in 1..Len(events) : events[i].ticker = f.ticker /\ events[i].date = f.date}

RECURSIVE ScoreTotal(_)
ScoreTotal(I) ==
    IF I = {} THEN Q(0)
    ELSE LET i == CHOOSE j \in I : TRUE
         IN FAdd(events[i].score, ScoreTotal(I \ {i}))

\* C4: a firm-day is positive iff the mean score of its stories is above 0.5,
\* negative iff it is below 0.5 and neutral otherwise; a mean of exactly 0.5
\* is neutral whatever the labels of the stories.
C4_SentimentThreshold ==
    pc = "done" =>
        \A k \in 1..Len(firm_day) :
            LET f == firm_day[k]
                n == Cardinality(StoriesOf(f))
                tot == ScoreTotal(StoriesOf(f))
            IN /\ (f.sentiment = "positive") <=> (2 * tot[1] > tot[2] * n)
               /\ (f.sentiment = "negative") <=> (2 * tot[1] < tot[2] * n)
               /\ (f.sentiment = "neutral") <=> (2 * tot[1] = tot[2] * n)
               /\ f.avg_score = Half => f.sentiment = "neutral"

\* a firm-day with one YES story and one NO story (mean 0.5) came out neutral
C4_Witness ==
    /\ pc = "done"
    /\ \E k \in 1..Len(firm_day) :
        /\ firm_day[k].avg_score = Half
        /\ firm_day[k].sentiment = "neutral"
        /\ \E i, j \in StoriesOf(firm_day[k]) :
            events[i].label = "YES" /\ events[j].label = "NO"

\* v = (a - b) / b for finite a, b with b # 0, by cross-multiplication
IsReturn(v, a, b) ==
    /\ IsFinite(v)
    /\ v[1] * a[2] * b[1] = v[2] * (a[1] * b[2] - b[1] * a[2])

Present(v) == v # Null
NonZero(v) == v # Null /\ v[1] # 0

\* C7: a row whose operands are all present and whose denominators are
\* non-zero gets, when intraday, initial_reaction = (mid_t15 - prev_close) /
\* prev_close and drift = (close_next - close) / close, and when overnight
\* initial_reaction = (open - prev_close) / prev_close and drift =
\* (close - open) / open, whatever quote was matched.
C7_RegimeSwitch ==
    pc = "done" =>
        \A i \in 1..Len(events) :
            LET e == events[i]
            IN /\ ( /\ e.is_intraday
                    /\ Present(e.mid_t15) /\ NonZero(e.prev_close)
                    /\ NonZero(e.closeprc) /\ Present(e.close_next) )
                  => /\ IsReturn(e.initial_reaction, e.mid_t15, e.prev_close)
                     /\ IsReturn(e.drift, e.close_next, e.closeprc)
               /\ ( /\ ~e.is_intraday
                    /\ NonZero(e.openprc) /\ NonZero(e.prev_close)
                    /\ Present(e.closeprc) )
                  => /\ IsReturn(e.initial_reaction, e.openprc, e.prev_close)
                     /\ IsReturn(e.drift, e.closeprc, e.openprc)

\* an overnight row with a matched quote of 5, open 3, previous close 2 and
\* close 2: initial_reaction is (3 - 2) / 2 and drift (2 - 3) / 3
C7_Witness ==
    /\ pc = "done"
    /\ \E i \in 1..Len(events) :
        /\ ~events[i].is_intraday
        /\ events[i].mid_t15 = Q(5)
        /\ events[i].openprc = Q(3) /\ events[i].prev_close = Q(2)
        /\ events[i].closeprc = Q(2)
        /\ events[i].initial_reaction = <<1, 2>>
        /\ events[i].drift = <<-1, 3>>

\* C8: a return whose denominator is zero (prev_close for initial_reaction,
\* close for intraday drift, open for overnight drift) is null.
C8_ZeroDenominatorIsNull ==
    pc = "done" =>
        \A i \in 1..Len(events) :
            LET e == events[i]
            IN /\ e.prev_close = Q(0) => e.initial_reaction = Null
               /\ (e.is_intraday /\ e.closeprc = Q(0)) => e.drift = Null
               /\ (~e.is_intraday /\ e.openprc = Q(0)) => e.drift = Null

\* the labeled stories that pass the ticker filter and have an index row
MatchedStories ==
    {<<i, j>> \in (1..Len(labels)) \X (1..Len(stories)) :
        /\ labels[i].ticker # NullStr /\ labels[i].ticker # ""
        /\ labels[i].rp_story_id = stories[j].rp_story_id
        /\ labels[i].ticker = stories[j].ticker}

\* the minute quotes at a story's (date, ticker, t15)
QuotesAt(d, t, minute) ==
    {k \in 1..Len(taq) :
        taq[k].date = d /\ taq[k].ticker = t /\ taq[k].minute_ts = minute}

\* C9: an intraday story without a quote at its (date, ticker, t15) keeps its
\* row with mid_t15 and initial_reaction null, and its drift is still
\* (close_next - close) / close when close and close_next are present; a
\* return is null exactly when one of its own operands is null.
C9_MissingQuote ==
    pc = "done" =>
        /\ \A m \in MatchedStories :
              \E i \in 1..Len(events) :
                  events[i].rp_story_id = stories[m[2]].rp_story_id
        /\ \A i \in 1..Len(events) :
            LET e == events[i]
            IN /\ QuotesAt(e.date, e.ticker, e.t15) = {} => e.mid_t15 = Null
               /\ (e.is_intraday /\ e.mid_t15 = Null) =>
                     /\ e.initial_reaction = Null
                     /\ (Present(e.closeprc) /\ Present(e.close_next)) =>
                           /\ Present(e.drift)
                           /\ NonZero(e.closeprc) =>
                                 IsReturn(e.drift, e.close_next, e.closeprc)
               /\ e.initial_reaction = Null <=>
                     \/ e.prev_close = Null
                     \/ e.is_intraday /\ e.mid_t15 = Null
                     \/ ~e.is_intraday /\ e.openprc = Null
               /\ e.drift = Null <=>
                     \/ e.is_intraday /\ (e.closeprc = Null \/ e.close_next = Null)
                     \/ ~e.is_intraday /\ (e.closeprc = Null \/ e.openprc = Null)

\* an intraday story without a quote at its minute and with close 2 and next
\* close 4: initial_reaction is null although prev_close is present, and
\* drift is (4 - 2) / 2
C9_Witness ==
    /\ pc = "done"
    /\ \E i \in 1..Len(events) :
        /\ events[i].is_intraday
        /\ QuotesAt(events[i].date, events[i].ticker, events[i].t15) = {}
        /\ taq # <<>>
        /\ events[i].mid_t15 = Null
        /\ Present(events[i].prev_close)
        /\ events[i].initial_reaction = Null
        /\ events[i].closeprc = Q(2) /\ events[i].close_next = Q(4)
        /\ events[i].drift = Q(1)

\* C10: the event-return table has exactly one row per labeled story that
\* matches a story-index row, whatever the daily-price and minute-quote
\* tables contain.
C10_OneRowPerStory ==
    pc = "done" =>
        /\ Len(events) = Cardinality(MatchedStories)
        /\ \A m \in MatchedStories :
              Cardinality({i \in 1..Len(events) :
                  events[i].rp_story_id = labels[m[1]].rp_story_id
                  /\ events[i].ticker = labels[m[1]].ticker}) = 1

\* the magnitude of a raw price (null stays null)
Magnitude(v) == IF v = Null THEN Null ELSE IF v[1] < 0 THEN <<-v[1], v[2]>> ELSE v
NonNegative(v) == v = Null \/ (v[2] > 0 /\ v[1] >= 0)

\* C11: every row of the price lookup carries the magnitudes of a raw row's
\* open and close, and its prev_close and close_next are the (non-negative)
\* closes of the rows before and after it within the ticker, null at the
\* ticker's first and last row.
C11_PricesNonNegative ==
    pc = "done" =>
        /\ Len(prices) = Len(crsp)
        /\ \A i \in 1..Len(prices) :
            LET r == prices[i]
            IN /\ NonNegative(r.openprc) /\ NonNegative(r.closeprc)
               /\ NonNegative(r.prev_close) /\ NonNegative(r.close_next)
               /\ \E k \in 1..Len(crsp) :
                     /\ crsp[k].ticker = r.ticker /\ crsp[k].date = r.date
                     /\ r.openprc = Magnitude(crsp[k].openprc)
                     /\ r.closeprc = Magnitude(crsp[k].closeprc)
               /\ r.prev_close =
                     IF i > 1 /\ prices[i - 1].ticker = r.ticker
                     THEN prices[i - 1].closeprc ELSE Null
               /\ r.close_next =
                     IF i < Len(prices) /\ prices[i + 1].ticker = r.ticker
                     THEN prices[i + 1].closeprc ELSE Null

\* a price row between two rows whose raw close is -2: prev_close and
\* close_next are both 2
C11_Witness ==
    /\ pc = "done"
    /\ \E i \in 1..Len(prices) :
        /\ prices[i].date = 2
        /\ prices[i].prev_close = Q(2) /\ prices[i].close_next = Q(2)
        /\ \A k \in 1..Len(crsp) : crsp[k].date # 2 => crsp[k].closeprc = Q(-2)

\* C12: the price lookup holds at most one record per (ticker, date), and
\* prev_close is the close of a strictly earlier date and close_next the
\* close of a strictly later date of the same ticker.
C12_Deduplicated ==
    pc = "done" =>
        /\ \A i, j \in 1..Len(prices) :
              (prices[i].ticker = prices[j].ticker /\ prices[i].date = prices[j].date)
                  => i = j
        /\ \A i \in 1..Len(prices) :
            /\ prices[i].prev_close # Null =>
                  \E k \in 1..Len(crsp) :
                      /\ crsp[k].ticker = prices[i].ticker
                      /\ crsp[k].date < prices[i].date
                      /\ Magnitude(crsp[k].closeprc) = prices[i].prev_close
            /\ prices[i].close_next # Null =>
                  \E k \in 1..Len(crsp) :
                      /\ crsp[k].ticker = prices[i].ticker
                      /\ crsp[k].date > prices[i].date
                      /\ Magnitude(crsp[k].closeprc) = prices[i].close_next

\* C13: a story's mid_t15 is non-null only if the minute-quote table has a
\* row at exactly the story's (date, ticker, t15), and is then the mid of such
\* a row; a quote at another minute or date is never used.
C13_ExactKeyJoin ==
    pc = "done" =>
        \A i \in 1..Len(events) :
            /\ events[i].mid_t15 # Null =>
                  \E k \in QuotesAt(events[i].date, events[i].ticker, events[i].t15) :
                      taq[k].mid = events[i].mid_t15
            /\ \A k \in QuotesAt(events[i].date, events[i].ticker, events[i].t15) :
                  \E j \in 1..Len(events) :
                      /\ events[j].rp_story_id = events[i].rp_story_id
                      /\ events[j].mid_t15 = taq[k].mid

\* the quote table holds a mid of 5 at the story's minute and a mid of 3 one
\* minute later: the story's only mid_t15 is 5
C13_Witness ==
    /\ pc = "done"
    /\ \E k \in 1..Len(taq) : taq[k].minute_ts = StoryMinute + 60 /\ taq[k].date = 2
    /\ \E k \in 1..Len(taq) : taq[k].minute_ts = StoryMinute /\ taq[k].mid = Q(5)
    /\ events # <<>>
    /\ \A i \in 1..Len(events) : events[i].mid_t15 = Q(5)

\* the firm-days of a date with a sentiment
FirmDaysOf(d, sent) ==
    {i \in 1..Len(firm_day) : firm_day[i].date = d /\ firm_day[i].sentiment = sent}

\* C14: the portfolio table has exactly one row per distinct date of the
\* firm-day input, and n_positive, n_negative and n_neutral of a row are the
\* numbers of that date's firm-days with the respective sentiment, so they
\* add up to the number of firm-day records of the date.
C14_OneRowPerDate ==
    pc = "done" =>
        /\ {portfolio[k].date : k \in 1..Len(portfolio)}
              = {firm_day[i].date : i \in 1..Len(firm_day)}
        /\ \A j, k \in 1..Len(portfolio) :
              portfolio[j].date = portfolio[k].date => j = k
        /\ \A k \in 1..Len(portfolio) :
            LET p == portfolio[k]
            IN /\ p.n_positive = Cardinality(FirmDaysOf(p.date, "positive"))
               /\ p.n_negative = Cardinality(FirmDaysOf(p.date, "negative"))
               /\ p.n_neutral = Cardinality(FirmDaysOf(p.date, "neutral"))
               /\ p.n_positive + p.n_negative + p.n_neutral
                     = Cardinality({i \in 1..Len(firm_day) : firm_day[i].date = p.date})

\* two dates, one of them with a positive, a negative and a neutral firm-day:
\* two rows, the counts of that date being 1, 1 and 1
C14_Witness ==
    /\ pc = "done"
    /\ Len(firm_day) = 4
    /\ Len(portfolio) = 2
    /\ \E k \in 1..Len(portfolio) :
        /\ portfolio[k].n_positive = 1
        /\ portfolio[k].n_negative = 1
        /\ portfolio[k].n_neutral = 1

\* the value of a series in a portfolio row
SeriesValue(p, col) ==
    CASE col = "ir_long_short" -> p.ir_long_short
      [] col = "ir_long_only" -> p.ir_long_only
      [] col = "ir_short_only" -> p.ir_short_only
      [] col = "drift_long_short" -> p.drift_long_short
      [] col = "drift_long_only" -> p.drift_long_only
      [] col = "drift_short_only" -> p.drift_short_only

\* the days on which a series has a value, and those on which it is above 0
Observed(col) ==
    {i \in 1..Len(portfolio) : SeriesValue(portfolio[i], col) # Null}
Hits(col) == {i \in Observed(col) : SeriesValue(portfolio[i], col)[1] > 0}

\* C15: the hit rate of a series is the percentage of its non-null days whose
\* value is strictly above 0 (a 0 is no hit, a null day is counted neither as
\* a day nor as a hit), and the days reported are the non-null days.
C15_HitRate ==
    pc = "done" =>
        \A k \in 1..Len(summary) :
            summary[k].data =>
                /\ summary[k].trading_days = Cardinality(Observed(summary[k].col))
                /\ summary[k].hit_rate[2] > 0
                /\ summary[k].hit_rate[1] * Cardinality(Observed(summary[k].col))
                      = 100 * Cardinality(Hits(summary[k].col)) * summary[k].hit_rate[2]

\* a series with a null day, a day of 0 and a day of 1: hit rate 50% over 2 days
C15_Witness ==
    /\ pc = "done"
    /\ Len(portfolio) = 3
    /\ \E k \in 1..Len(summary) :
        /\ summary[k].data
        /\ summary[k].trading_days = 2
        /\ summary[k].hit_rate = Q(50)
        /\ \E i \in Observed(summary[k].col) :
              SeriesValue(portfolio[i], summary[k].col) = Q(0)

RECURSIVE SeriesTotal(_, _)
SeriesTotal(I, col) ==
    IF I = {} THEN Q(0)
    ELSE LET i == CHOOSE j \in I : TRUE
         IN FAdd(SeriesValue(portfolio[i], col), SeriesTotal(I \ {i}, col))

RECURSIVE SeriesSquares(_, _)
SeriesSquares(I, col) ==
    IF I = {} THEN Q(0)
    ELSE LET i == CHOOSE j \in I : TRUE
             x == SeriesValue(portfolio[i], col)
         IN FAdd(FMul(x, x), SeriesSquares(I \ {i}, col))

\* n (n - 1) s^2 = n sum(x^2) - sum(x)^2 for the sample variance s^2
IsSampleVariance(v, I, col) ==
    LET n == Cardinality(I)
    IN FMul(Q(n * (n - 1)), v)
         = FSub(FMul(Q(n), SeriesSquares(I, col)),
                FMul(SeriesTotal(I, col), SeriesTotal(I, col)))

\* C16: summarize completes on every table with rows; the standard deviation
\* of a series is the sample one (N-1 denominator), taken as 0 with fewer
\* than 2 observations, and the Sharpe ratio is not-a-number whenever the
\* standard deviation is 0, as with one observation or all values equal.
C16_SharpeNaN ==
    (pc # "portfolio" /\ portfolio # <<>>) =>
        /\ pc = "done"
        /\ \A k \in 1..Len(summary) :
            summary[k].data =>
                LET I == Observed(summary[k].col)
                    b == summary[k]
                IN /\ Cardinality(I) < 2 => b.std_ret_squared = Q(0)
                   /\ (Cardinality(I) >= 2 /\ b.std_ret_squared[2] >= 0)
                         => IsSampleVariance(b.std_ret_squared, I, b.col)
                   /\ b.std_ret_squared = Q(0) => b.sharpe = NaN
                   /\ (\A i, j \in I :
                          /\ SeriesValue(portfolio[i], b.col)[2] > 0
                          /\ SeriesValue(portfolio[i], b.col)
                                = SeriesValue(portfolio[j], b.col))
                         => b.sharpe = NaN

\* C17: summarize raises no exception, whatever the portfolio table (one
\* without rows included); a series without a non-null observation is reported
\* as "no data" and every other series is summarized.
C17_EmptySeriesNoData ==
    pc # "portfolio" =>
        /\ pc = "done"
        /\ Len(summary) = Len(metrics)
        /\ \A k \in 1..Len(summary) :
              summary[k].data <=> Observed(summary[k].col) # {}

\* the input tables a completed step computed on
ComputedOn(name) ==
    UNION {MainSteps[k].computes : k \in {j \in 1..Len(MainSteps) : MainSteps[j].name = name}}

\* C18: when a required column is absent from an input table, main fails
\* with a hard error, has written neither output table, and has run no
\* computation on a table other than those with an absent column.
C18_MissingColumnFailsFirst ==
    (pc # "main" /\ absent # {}) =>
        /\ pc = "ColumnNotFoundError"
        /\ written = {}
        /\ \A i \in 1..Len(steps) :
              ComputedOn(steps[i]) \subseteq {c[1] : c \in absent}

EventColumns == {"score", "initial_reaction", "drift"}
EventValue(e, c) ==
    CASE c = "score" -> e.score
      [] c = "initial_reaction" -> e.initial_reaction
      [] c = "drift" -> e.drift
FirmDayValue(f, c) ==
    CASE c = "score" -> f.avg_score
      [] c = "initial_reaction" -> f.initial_reaction
      [] c = "drift" -> f.drift

RECURSIVE EventTotal(_, _)
EventTotal(I, c) ==
    IF I = {} THEN Q(0)
    ELSE LET i == CHOOSE j \in I : TRUE
         IN FAdd(EventValue(events[i], c), EventTotal(I \ {i}, c))

\* C19: the firm-day table has exactly one row per distinct (ticker, date)
\* of the event table; avg_score, initial_reaction and drift of a row are the
\* means of the group's non-null values (null when the group has none), and
\* n_headlines is the number of event rows of the group.
C19_FirmDayMeans ==
    pc = "done" =>
        /\ {<<firm_day[k].ticker, firm_day[k].date>> : k \in 1..Len(firm_day)}
              = {<<events[i].ticker, events[i].date>> : i \in 1..Len(events)}
        /\ \A j, k \in 1..Len(firm_day) :
              (firm_day[j].ticker = firm_day[k].ticker
                  /\ firm_day[j].date = firm_day[k].date) => j = k
        /\ \A k \in 1..Len(firm_day) :
            /\ firm_day[k].n_headlines = Cardinality(StoriesOf(firm_day[k]))
            /\ \A c \in EventColumns :
                LET I == {i \in StoriesOf(firm_day[k]) : EventValue(events[i], c) # Null}
                    v == FirmDayValue(firm_day[k], c)
                IN IF I = {} THEN v = Null
                   ELSE /\ IsFinite(v)
                        /\ v[1] * Cardinality(I) * EventTotal(I, c)[2]
                              = v[2] * EventTotal(I, c)[1]

\* two firm-days, one of them with two stories of which one has a null
\* initial_reaction and the other 2, and both a null drift: the firm-day has
\* initial_reaction 2, a null drift and 2 headlines
C19_Witness ==
    /\ pc = "done"
    /\ Len(firm_day) = 2
    /\ \E k \in 1..Len(firm_day) :
        /\ firm_day[k].n_headlines = 2
        /\ firm_day[k].initial_reaction = Q(2)
        /\ firm_day[k].drift = Null
        /\ \E i \in StoriesOf(firm_day[k]) : events[i].initial_reaction = Null

\* C20: the minute-quote panel holds at most one mid per (ticker, date,
\* minute_ts): two rows of the panel with the same key carry the same mid,
\* whatever (sym_root, sym_suffix) pairs the quote tables hold and whatever
\* symbol list is passed to the pull.
C20_OneMidPerMinute ==
    pc = "done" =>
        \A i, j \in 1..Len(taq) :
            (taq[i].ticker = taq[j].ticker /\ taq[i].date = taq[j].date
                /\ taq[i].minute_ts = taq[j].minute_ts) => taq[i].mid = taq[j].mid

\* the positions of a ticker's rows in the price lookup before and after i
Earlier(i) == {j \in 1..Len(prices) : j < i /\ prices[j].ticker = prices[i].ticker}
Later(i) == {j \in 1..Len(prices) : j > i /\ prices[j].ticker = prices[i].ticker}
Last(S) == CHOOSE j \in S : \A k \in S : k <= j
First(S) == CHOOSE j \in S : \A k \in S : j <= k

\* C21: the rows of a ticker in the price lookup are in date order; a row's
\* prev_close is the close of the ticker's row just before it and close_next
\* that of the ticker's row just after it, whatever the gap between their
\* dates; the first row of a ticker has a null prev_close and the last a null
\* close_next.
C21_PositionalNeighbours ==
    pc = "done" =>
        \A i \in 1..Len(prices) :
            /\ \A j \in Earlier(i) : prices[j].date <= prices[i].date
            /\ prices[i].prev_close =
                  IF Earlier(i) = {} THEN Null ELSE prices[Last(Earlier(i))].closeprc
            /\ prices[i].close_next =
                  IF Later(i) = {} THEN Null ELSE prices[First(Later(i))].closeprc

\* ticker A has rows on dates 1 and 3 only and ticker B one row on date 2:
\* A's row of date 3 takes the close of date 1 as prev_close, and B's row
\* has neither neighbour
C21_Witness ==
    /\ pc = "done"
    /\ Len(prices) = 3
    /\ \E i, j, k \in 1..Len(prices) :
        /\ prices[i].ticker = "A" /\ prices[i].date = 1 /\ prices[i].closeprc = Q(4)
        /\ prices[j].ticker = "A" /\ prices[j].date = 3
        /\ prices[j].prev_close = Q(4) /\ prices[j].close_next = Null
        /\ prices[i].close_next = prices[j].closeprc
        /\ prices[k].ticker = "B"
        /\ prices[k].prev_close = Null /\ prices[k].close_next = Null

\* the local wall-clock second of the instant 15 minutes after a story's
\* timestamp (its microseconds are those of the timestamp)
Plus15(st) == ConvertTimeZone(UtcSeconds(st.timestamp_utc) + 15 * 60)

\* C22: t15 is the story's timestamp plus 15 minutes floored to the minute:
\* t15 has zero seconds and t15 <= timestamp + 15 min < t15 + 1 min.
C22_T15Floored ==
    pc = "done" =>
        \A i \in 1..Len(stories) :
            /\ stories[i].t15 % 60 = 0
            /\ stories[i].t15 <= Plus15(stories[i])
            /\ Plus15(stories[i]) < stories[i].t15 + 60

\* a story stamped 59.999999 seconds into a minute: t15 is 14 minutes and 1
\* second after the timestamp's whole second
C22_Witness ==
    /\ pc = "done"
    /\ \E i \in 1..Len(stories) :
        /\ stories[i].timestamp_utc.second = 59
        /\ stories[i].timestamp_utc.micro = 999999
        /\ stories[i].t15 = stories[i].timestamp_et.second + 14 * 60 + 1

\* the firm-day table with the records of every date but d removed
OnlyDate(d) == SelectSeq(firm_day, LAMBDA r : r.date = d)

\* C23: the portfolio row of a date is the row build_portfolios gives when
\* it is run on that date's firm-day records alone, so the records of other
\* dates and the place of the date in the loop have no effect on it.
C23_NoCrossDateState ==
    pc = "done" =>
        \A k \in 1..Len(portfolio) :
            <<portfolio[k]>> = PortfolioTable(OnlyDate(portfolio[k].date))

\* two dates with firm-days: the later date has a positive firm-day whose
\* initial_reaction is 2 and comes after an earlier date with a positive
\* firm-day of initial_reaction -1; its long-only value is 2
C23_Witness ==
    /\ pc = "done"
    /\ Len(portfolio) = 2
    /\ portfolio[2].n_positive = 1
    /\ portfolio[2].ir_long_only = Q(2)
    /\ portfolio[1].n_positive = 1
    /\ portfolio[1].ir_long_only = Q(-1)

\* the story ids of a table
Ids(t) == {t[i].rp_story_id : i \in 1..Len(t)}

\* C24: over runs of the labelling that follow one another, the persisted
\* labels hold one row per rp_story_id, the rows sampled and the rows labeled
\* in a run carry no id that is persisted already, and every persisted row is
\* still there, unchanged, after each step.
C24_LabelsKeptOnce ==
    [][/\ \A i, j \in 1..Len(interim') :
             interim'[i].rp_story_id = interim'[j].rp_story_id => i = j
       /\ pc' = "label" => Ids(df_sample') \cap Ids(interim') = {}
       /\ pc' = "save" => Ids(new_labels') \cap Ids(interim') = {}
       /\ \A i \in 1..Len(interim) :
             \E j \in 1..Len(interim') : interim'[j] = interim[i]]_vars

\* two runs have saved labels: all three stories with a headline are labeled,
\* two in the first run and one in the second
C24_Witness ==
    /\ pc = "sample"
    /\ Len(interim) = 3
    /\ interim[1].created_at = 1
    /\ interim[3].created_at = 2

\* C25: parse_label answers YES, NO or UNKNOWN to every response without
\* raising, and the score is 1, 0 or 1/2 accordingly.
C25_ParseLabelTotal ==
    /\ pc # "IndexError"
    /\ \A i \in 1..Len(new_labels) :
          /\ new_labels[i].label \in {"YES", "NO", "UNKNOWN"}
          /\ new_labels[i].score =
                IF new_labels[i].label = "YES" THEN <<1, 1>>
                ELSE IF new_labels[i].label = "NO" THEN <<0, 1>>
                ELSE <<1, 2>>

\* the minute-quote session window of the pull: time_m >= 09:30:00 and
\* time_m < 16:00:00
InSession(t) == At(9, 30, 0) <= t % 86400 /\ t % 86400 < At(16, 0, 0)

\* C26: an intraday story is dated with the local calendar date of its
\* timestamp, and its target minute t15 lies on that date inside the session
\* window [09:30, 16:00) the quote pull keeps.
C26_TargetMinuteInSession ==
    pc = "done" =>
        \A i \in 1..Len(stories) :
            stories[i].is_intraday =>
                /\ stories[i].date = LocalDate(stories[i])
                /\ stories[i].t15 \div 86400 = stories[i].date
                /\ InSession(stories[i].t15)

\* the rows of the firm-day news table that hold a story
NewsRowsOf(st) ==
    {k \in 1..Len(news_firmday) :
        /\ news_firmday[k].ticker = st.ticker
        /\ \E i \in 1..Len(news_firmday[k].story_ids) :
              /\ news_firmday[k].story_ids[i] = st.rp_story_id
              /\ news_firmday[k].timestamps_utc[i] = st.timestamp_utc}

\* C27: the firm-day news table and the story index give a story the same
\* trading date, and that date is the next calendar day exactly when the
\* local minute of the day has reached 16:00, the local date otherwise.
C27_TradingDatesAgree ==
    pc = "done" =>
        \A i \in 1..Len(stories) :
            /\ NewsRowsOf(stories[i]) # {}
            /\ \A k \in NewsRowsOf(stories[i]) :
                  news_firmday[k].date = stories[i].date
            /\ stories[i].date =
                  IF LocalSecondOfDay(stories[i]) \div 60 >= 16 * 60
                  THEN LocalDate(stories[i]) + 1
                  ELSE LocalDate(stories[i])

\* a story at 15:59:59.999999 local time stays on its day in both tables
C27_Witness ==
    /\ pc = "done"
    /\ Len(stories) = 1 /\ Len(news_firmday) = 1
    /\ LocalSecondOfDay(stories[1]) = At(15, 59, 59)
    /\ stories[1].timestamp_et.micro = 999999
    /\ news_firmday[1].date = LocalDate(stories[1])
    /\ stories[1].date = LocalDate(stories[1])

====
